---- MODULE Spec2Model ----
(***************************************************************************)
(* Model of the hexagonal flow game (src/src/game.rs) and of its           *)
(* move-legality validator (src/src/legality.rs).                          *)
(*                                                                         *)
(* The specifications below share the operators of the model:              *)
(*   Spec            the Game object driven through apply_action           *)
(*   SpecValidator   one legality check, stepped player by player          *)
(*   SpecOracle      the satisfiability oracle on bounded demand sets      *)
(*   SpecContention  placements on a board with a contended hex            *)
(*   SpecOpening     the first placements of a game                        *)
(*   SpecBoard       with_tile_placed, recompute_flows and apply_action    *)
(*   SpecGeometry    the tile and board-edge functions                     *)
(*   SpecReplay      a game played from Game::new, then from_actions       *)
(*   SpecFlood       floodfill_path, one turn of its loop at a time        *)
(***************************************************************************)
EXTENDS Integers, Sequences, FiniteSets, TLC

VARIABLES
    game,              \* the Game object (all fields of struct Game)
    result,            \* what the last apply_action call returned
    calls,             \* how many times the driver has called apply_action
    cand,              \* SpecValidator: the candidate game handed to is_move_legal;
                       \* SpecFlood: the game before the flood
    ordering,          \* SpecValidator: ordered_players of the running check
    idx,               \* SpecValidator: position of the loop over ordered_players
    attempt,           \* SpecValidator: 0 = not started, 1 = first ordering, 2 = retry
    claimed_edges,     \* SpecValidator: local claimed_edges of check_paths_for_ordering
    internal_demands,  \* SpecValidator: local internal_demands of check_paths_for_ordering
    paths,             \* SpecValidator: the paths accepted so far in this ordering
    first_failing,     \* SpecValidator: failing player of the first ordering
    verdict,           \* SpecValidator: "running", "legal" or "illegal"
    demands,           \* SpecOracle: the argument of is_satisfiable
    sat_result,        \* SpecOracle: "none", or the value is_satisfiable returned
    query,             \* SpecGeometry, SpecReplay, SpecFlood: the function called
                       \* and its arguments
    answer             \* the value it returned; SpecFlood: the (hex, port) entered

vars == <<game, result, calls, cand, ordering, idx, attempt, claimed_edges,
          internal_demands, paths, first_failing, verdict, demands, sat_result,
          query, answer>>

gameVars == <<game, result, calls>>
validatorVars == <<cand, ordering, idx, attempt, claimed_edges, internal_demands,
                   paths, first_failing, verdict>>
oracleVars == <<demands, sat_result>>
geometryVars == <<query, answer>>

----------------------------------------------------------------------------
(* Evaluation order                                                        *)

\* SpecGeometry: no function called yet
NoQuery == [kind |-> "none"]

\* TRUE, once v has been computed: Rust computes the value of a statement
\* before the next statement runs, and a loop below asks for the same
Evaluated(v) == Len(<<v>>) = 1

\* a `for` loop over 1..n has ended, with the value acc of the iterations before i
LoopEnd(acc, i, n) == Evaluated(acc) /\ i > n

----------------------------------------------------------------------------
(* Hex geometry and tile algebra                                           *)

\* Option::None of Option<Player> and Option<TileType>
None == -1

Directions == 0..5
TileTypes == 0..3
Rotations == 0..5

NoSharps == 0
OneSharp == 1
TwoSharps == 2
ThreeSharps == 3

\* Rotation::reversed
RotationReversed(r) == (6 - r) % 6

\* Direction::rotate
DirRotate(d, r) == (d + r) % 6

\* the direction left as it is
DirKept(d) == d

\* Direction::reversed
DirReversed(d) == DirRotate(d, 3)

\* Direction::all_directions, in iteration order
AllDirections == <<0, 1, 2, 3, 4, 5>>

\* Direction::tile_vec
TileVecTable == << <<-1, -1>>, <<0, -1>>, <<1, 0>>, <<1, 1>>, <<0, 1>>, <<-1, 0>> >>

TileVecOf(d) == TileVecTable[d + 1]

\* TileVec::rotate: the six precomputed rotation matrices
RotationMatrices ==
    << <<1, 0, 0, 1>>, <<1, -1, 1, 0>>, <<0, -1, 1, -1>>,
       <<-1, 0, 0, -1>>, <<-1, 1, -1, 0>>, <<0, 1, -1, 1>> >>

VecRotate(v, r) ==
    LET m == RotationMatrices[r + 1]
    IN  << m[1] * v[1] + m[2] * v[2], m[3] * v[1] + m[4] * v[2] >>

\* TilePos + TileVec and TilePos - TilePos
PosAdd(p, v) == <<p[1] + v[1], p[2] + v[2]>>
PosSub(p, q) == <<p[1] - q[1], p[2] - q[2]>>

\* derived Ord of TilePos: row first, then col
PosLess(p, q) == p[1] < q[1] \/ (p[1] = q[1] /\ p[2] < q[2])

\* TileType::exit_from_entrance: the four lookup permutations
ExitTable ==
    << <<2, 4, 0, 5, 1, 3>>, <<5, 3, 4, 1, 2, 0>>,
       <<5, 4, 3, 2, 1, 0>>, <<5, 2, 1, 4, 3, 0>> >>

TileTypeExit(t, entrance) == ExitTable[t + 1][entrance + 1]

\* TileType::all_flows: entrances visited in the order 0,2,3,5,1,4, keeping
\* the pairs with entrance < exit
FlowScanOrder == <<0, 2, 3, 5, 1, 4>>

TileTypeAllFlows(t) ==
    LET keep(i) == FlowScanOrder[i] < TileTypeExit(t, FlowScanOrder[i])
        pair(i) == <<FlowScanOrder[i], TileTypeExit(t, FlowScanOrder[i])>>
    IN  SelectSeq([i \in 1..6 |-> IF keep(i) THEN pair(i) ELSE <<>>],
                  LAMBDA x : x # <<>>)

\* PlacedTile::new
NewPlacedTile(t, r) ==
    [kind |-> "Placed", type_ |-> t, rotation |-> r,
     flow_cache |-> [d \in Directions |-> None]]

\* exit_from_entrance with the entrance turned by the rotation, not by its reverse
PlacedExitForward(tile, entrance) ==
    DirRotate(TileTypeExit(tile.type_, DirRotate(entrance, tile.rotation)),
              tile.rotation)

\* PlacedTile::exit_from_entrance
PlacedExit(tile, entrance) ==
    DirRotate(TileTypeExit(tile.type_,
                           DirRotate(entrance, RotationReversed(tile.rotation))),
              tile.rotation)

\* PlacedTile::all_flows
PlacedAllFlows(tile) ==
    LET f == TileTypeAllFlows(tile.type_)
    IN  [i \in 1..Len(f) |-> <<DirRotate(f[i][1], tile.rotation),
                               DirRotate(f[i][2], tile.rotation)>>]

----------------------------------------------------------------------------
(* Board state                                                             *)

NotOnBoard == [kind |-> "NotOnBoard"]
Empty == [kind |-> "Empty"]

Grid == (0..6) \X (0..6)

\* Game::new, the board: Empty, with NotOnBoard in two corners of the square
NewBoard ==
    [row \in 0..6 |-> [col \in 0..6 |->
        IF \E i \in 0..2 : \E j \in 0..(2 - i) :
              <<row, col>> = <<6 - i, j>> \/ <<row, col>> = <<i, 6 - j>>
        THEN NotOnBoard ELSE Empty]]

\* Game::new, the sides
NewSides(n) ==
    [s \in 0..5 |-> IF s = 0 THEN 0
                    ELSE IF s = 2 THEN 1
                    ELSE IF s = 4 /\ n = 3 THEN 2
                    ELSE None]

\* Option<GameOutcome>: None, or Some(Victory(winners))
NoOutcome == [kind |-> "None"]
Victory(w) == [kind |-> "Victory", winners |-> w]

InitializeGameAction(n) == [kind |-> "InitializeGame", num_players |-> n]

\* Game::new
NewGame(n) ==
    [num_players |-> n,
     sides |-> NewSides(n),
     remaining_tiles |-> [t \in TileTypes |-> 10],
     tiles_in_hand |-> [p \in 0..(n - 1) |-> None],
     board |-> NewBoard,
     action_history |-> <<InitializeGameAction(n)>>,
     current_player |-> 0,
     outcome |-> NoOutcome]

\* Game::center_pos
CenterPos == <<3, 3>>

\* Game::tile (an out-of-range position reads board[6][0], "some arbitrary
\* NotOnBoard position")
InGrid(pos) == ~(pos[1] < 0 \/ pos[2] < 0 \/ pos[1] >= 7 \/ pos[2] >= 7)

TileAt(g, pos) == IF InGrid(pos) THEN g.board[pos[1]][pos[2]] ELSE g.board[6][0]

\* Game::get_neighbor_pos: the neighbour, or <<>> for Option::None
NoPos == <<>>
GetNeighborPos(g, pos, d) ==
    LET n == PosAdd(pos, TileVecOf(d))
    IN  IF TileAt(g, n) = NotOnBoard THEN NoPos ELSE n

\* Game::get_direction_towards (defined for adjacent hexes, unwrap otherwise panics)
GetDirectionTowards(from, to) ==
    LET d == PosSub(to, from)
    IN  CHOOSE dir \in Directions : TileVecOf(dir) = d

\* Game::edges_on_board_edge: the template of side 0, rotated about the centre
BottomEdges ==
    << <<<<0, 0>>, 5>>, <<<<0, 1>>, 0>>, <<<<0, 1>>, 5>>, <<<<0, 2>>, 0>>,
       <<<<0, 2>>, 5>>, <<<<0, 3>>, 0>>, <<<<0, 3>>, 5>> >>

\* edges_on_board_edge with the hexes rotated and the directions left as in
\* the template
EdgesOnBoardEdgeFixedDir(side) ==
    [i \in 1..7 |->
        << PosAdd(CenterPos, VecRotate(PosSub(BottomEdges[i][1], CenterPos), side)),
           BottomEdges[i][2] >>]

EdgesOnBoardEdge(side) ==
    [i \in 1..7 |->
        << PosAdd(CenterPos, VecRotate(PosSub(BottomEdges[i][1], CenterPos), side)),
           DirRotate(BottomEdges[i][2], side) >>]

----------------------------------------------------------------------------
(* Flow computation                                                        *)

\* PlacedTile::set_flow_cache on the tile at pos
SetFlowCache(board, pos, d, player) ==
    [board EXCEPT ![pos[1]][pos[2]].flow_cache[d] = player]

\* Game::adjacent_tile: the position across the edge, or NoPos for BoardEdge
AdjacentTile(g, pos, d) ==
    IF TileAt(g, PosAdd(pos, TileVecOf(d))) = NotOnBoard
    THEN NoPos ELSE PosAdd(pos, TileVecOf(d))

\* Game::floodfill_path: follow the placed tiles from (pos, dir), marking the
\* entrance and the exit of every tile on the way with the player
RECURSIVE FloodfillPath(_, _, _, _)
FloodfillPath(g, player, pos, dir) ==
    IF ~InGrid(pos) \/ g.board[pos[1]][pos[2]].kind # "Placed"
    THEN g
    ELSE LET exit_dir == PlacedExit(g.board[pos[1]][pos[2]], dir)
             marked == [g EXCEPT !.board =
                          SetFlowCache(SetFlowCache(g.board, pos, dir, player),
                                       pos, exit_dir, player)]
             next_pos == AdjacentTile(marked, pos, exit_dir)
         IN  IF next_pos = NoPos
             THEN marked
             ELSE FloodfillPath(marked, player, next_pos, DirReversed(exit_dir))

\* Game::recompute_flows, first loop: `if let Tile::Placed(mut tile) =
\* self.board[i][j]` binds a copy of the tile (Tile is Copy), so the
\* assignment to tile.flow_cache never reaches the board
ClearFlowCaches(g) == g

\* Game::recompute_flows, `for (pos, dir) in self.edges_on_board_edge(side)`
RECURSIVE FloodSlots(_, _, _, _)
FloodSlots(g, player, slots, i) ==
    IF LoopEnd(g, i, Len(slots)) THEN g
    ELSE FloodSlots(FloodfillPath(g, player, slots[i][1], slots[i][2]),
                    player, slots, i + 1)

\* Game::recompute_flows, the body of `for side in 0..6`
FloodSide(g, side) ==
    IF g.sides[side] = None THEN g
    ELSE FloodSlots(g, g.sides[side], EdgesOnBoardEdge(side), 1)

\* Game::recompute_flows, `for side in 0..6`
RECURSIVE FloodSides(_, _)
FloodSides(g, side) ==
    IF LoopEnd(g, side, 5) THEN g ELSE FloodSides(FloodSide(g, side), side + 1)

\* winners.sort(); winners.dedup(): the sorted list of a set of players
RECURSIVE SortedSeq(_)
SortedSeq(S) ==
    IF S = {} THEN <<>>
    ELSE LET m == CHOOSE x \in S : \A y \in S : x <= y
         IN  <<m>> \o SortedSeq(S \ {m})

\* update_outcome looking for the flow on the slots of the player's own side
WinnersPushedOwnSide(g) ==
    UNION { LET player == g.sides[side]
                slots == EdgesOnBoardEdge(side)
                reached == \E i \in 1..7 :
                              /\ TileAt(g, slots[i][1]).kind = "Placed"
                              /\ TileAt(g, slots[i][1]).flow_cache[slots[i][2]] = player
            IN  IF player = None \/ ~reached THEN {} ELSE {player}
          : side \in 0..5 }

\* Game::update_outcome, the players pushed to `winners`
WinnersPushed(g) ==
    UNION { LET player == g.sides[side]
                opposite_side == (side + 3) % 6
                slots == EdgesOnBoardEdge(opposite_side)
                reached == \E i \in 1..7 :
                              /\ TileAt(g, slots[i][1]).kind = "Placed"
                              /\ TileAt(g, slots[i][1]).flow_cache[slots[i][2]] = player
            IN  IF player = None \/ ~reached THEN {}
                ELSE {player} \cup (IF g.sides[opposite_side] # None
                                    THEN {g.sides[opposite_side]} ELSE {})
          : side \in 0..5 }

\* update_outcome without the early return, the outcome following the winners
\* of the present caches
UpdateOutcomeRecomputed(g) ==
    IF WinnersPushed(g) = {} THEN [g EXCEPT !.outcome = NoOutcome]
    ELSE [g EXCEPT !.outcome = Victory(SortedSeq(WinnersPushed(g)))]

\* Game::update_outcome
UpdateOutcome(g) ==
    IF g.outcome # NoOutcome THEN g
    ELSE IF WinnersPushed(g) = {} THEN g
    ELSE [g EXCEPT !.outcome = Victory(SortedSeq(WinnersPushed(g)))]

\* recompute_flows with update_outcome called before the floodfills
RecomputeFlowsOutcomeFirst(g) == FloodSides(UpdateOutcome(ClearFlowCaches(g)), 0)

\* Game::recompute_flows
RecomputeFlows(g) == UpdateOutcome(FloodSides(ClearFlowCaches(g), 0))

\* Game::with_tile_placed (tile_mut(pos).unwrap() panics outside the 7x7 grid)
WithTilePlaced(g, tile, pos, rotation) ==
    RecomputeFlows([g EXCEPT !.board[pos[1]][pos[2]] = NewPlacedTile(tile, rotation)])

\* Game::set_current_player_for_testing
SetCurrentPlayerForTesting(g, player) == [g EXCEPT !.current_player = player]

----------------------------------------------------------------------------
(* Satisfiability oracle and move-legality validator (legality.rs)         *)

\* the swap `if d1 > d2 { swap }` applied to a connection
NormalizeConnection(d1, d2) == IF d1 > d2 THEN <<d2, d1>> ELSE <<d1, d2>>

\* provided_connections with each pair as all_flows() lists it
ProvidedConnectionsUnsorted(t, r) ==
    LET f == PlacedAllFlows(NewPlacedTile(t, r))
    IN  { <<f[i][1], f[i][2]>> : i \in 1..Len(f) }

\* is_satisfiable, provided_connections of one tile configuration:
\* all_flows() with each pair stored smaller direction first
ProvidedConnections(t, r) ==
    LET f == PlacedAllFlows(NewPlacedTile(t, r))
    IN  { NormalizeConnection(f[i][1], f[i][2]) : i \in 1..Len(f) }

\* is_satisfiable, the provided_connections of the 24 configurations the two
\* loops visit (they depend on nothing but the loop indices)
ProvidedTable == [t \in TileTypes |-> [i \in 0..5 |-> ProvidedConnections(t, i)]]

\* is_satisfiable with the loop over tile types cut down to its first entry
IsSatisfiableFirstType(D) ==
    IF D = {} THEN TRUE
    ELSE \E i \in 0..5 : D \subseteq ProvidedTable[NoSharps][i]

\* is_satisfiable
IsSatisfiable(D) ==
    IF D = {} THEN TRUE
    ELSE \E t \in TileTypes : \E i \in 0..5 : D \subseteq ProvidedTable[t][i]

\* canonical_node keyed by the hex it is called from
CanonicalNodeDirected(pos1, pos2) ==
    <<pos1, pos2, GetDirectionTowards(pos1, pos2)>>

\* canonical_node
CanonicalNode(pos1, pos2) ==
    LET dir == GetDirectionTowards(pos1, pos2)
    IN  IF PosLess(pos1, pos2) THEN <<pos1, pos2, dir>>
        ELSE <<pos2, pos1, DirReversed(dir)>>

\* get_player_sides: (start side, goal side)
GetPlayerSides(player) ==
    CASE player = 0 -> <<0, 3>>
      [] player = 1 -> <<2, 5>>
      [] player = 2 -> <<4, 1>>

\* internal_demands.get(&pos).cloned().unwrap_or_default()
DemandsAt(idemands, pos) == IF pos \in DOMAIN idemands THEN idemands[pos] ELSE {}

\* Option<Vec<Node>>::None (every returned path has at least one node)
NoPath == <<>>

\* find_potential_path_for_team, `if !claimed_edges.contains(..) &&
\* !visited_nodes.contains(..) { queue.push_back(..); visited_nodes.insert(..) }`
PushStart(st, node, tip, claimed) ==
    IF node \notin claimed /\ node \notin st.visited
    THEN [st EXCEPT !.queue = Append(st.queue, [path |-> <<node>>, tip |-> tip]),
                    !.visited = st.visited \cup {node}]
    ELSE st

\* find_potential_path_for_team, step 1, Tile::Empty arm:
\* `for exit_dir in Direction::all_directions()`
RECURSIVE StartEmpty(_, _, _, _, _)
StartEmpty(st, g, start_pos, claimed, i) ==
    IF LoopEnd(st, i, Len(AllDirections)) THEN st
    ELSE LET neighbor_pos == GetNeighborPos(g, start_pos, AllDirections[i])
         IN  StartEmpty(IF neighbor_pos = NoPos THEN st
                        ELSE PushStart(st, CanonicalNode(start_pos, neighbor_pos),
                                       neighbor_pos, claimed),
                        g, start_pos, claimed, i + 1)

\* find_potential_path_for_team, step 1, the port of a Placed start hex the
\* path enters by: `let entry_dir = border_dir.reversed()`
StartEntryDir(border_dir) == DirReversed(border_dir)

\* find_potential_path_for_team, step 1, one start boundary slot
StartSlot(st, g, slot, claimed) ==
    LET start_pos == slot[1]
        entry_dir == StartEntryDir(slot[2])
        tile == TileAt(g, start_pos)
    IN  IF tile.kind = "Placed"
        THEN LET exit_dir == PlacedExit(tile, entry_dir)
                 neighbor_pos == GetNeighborPos(g, start_pos, exit_dir)
             IN  IF neighbor_pos = NoPos THEN st
                 ELSE PushStart(st, CanonicalNode(start_pos, neighbor_pos),
                                neighbor_pos, claimed)
        ELSE IF tile.kind = "Empty"
        THEN StartEmpty(st, g, start_pos, claimed, 1)
        ELSE st

\* find_potential_path_for_team, step 1: the initial queue,
\* `for (start_pos, border_dir) in game.edges_on_board_edge(start_side)`
RECURSIVE StartQueue(_, _, _, _, _)
StartQueue(st, g, slots, claimed, i) ==
    IF LoopEnd(st, i, Len(slots)) THEN st
    ELSE StartQueue(StartSlot(st, g, slots[i], claimed), g, slots, claimed, i + 1)

\* the goal test without its Tile::Empty arm
GoalReachedPlacedOnly(g, current_pos, prev_pos, idemands, goal_edges) ==
    /\ \E e \in goal_edges : e[1] = current_pos
    /\ TileAt(g, current_pos).kind = "Placed"
    /\ <<current_pos, PlacedExit(TileAt(g, current_pos),
                                 GetDirectionTowards(current_pos, prev_pos))>> \in goal_edges

\* the goal test reduced to `goal_hexes.contains(&current_pos)`
GoalReachedAnyExit(g, current_pos, prev_pos, idemands, goal_edges) ==
    \E e \in goal_edges : e[1] = current_pos

\* find_potential_path_for_team, step 3: the goal test of a dequeued path
GoalReached(g, current_pos, prev_pos, idemands, goal_edges) ==
    /\ \E e \in goal_edges : e[1] = current_pos
    /\ LET entry_dir == GetDirectionTowards(current_pos, prev_pos)
           tile == TileAt(g, current_pos)
       IN  IF tile.kind = "Placed"
           THEN <<current_pos, PlacedExit(tile, entry_dir)>> \in goal_edges
           ELSE IF tile.kind = "Empty"
           THEN \E e \in goal_edges :
                   /\ e[1] = current_pos
                   /\ IsSatisfiable(DemandsAt(idemands, current_pos)
                                    \cup {NormalizeConnection(entry_dir, e[2])})
           ELSE FALSE

\* a push that queues the new path twice
PushNextTwice(st, path, next_node, next_pos) ==
    [st EXCEPT !.queue = st.queue \o << [path |-> Append(path, next_node), tip |-> next_pos],
                                        [path |-> Append(path, next_node), tip |-> next_pos] >>,
               !.visited = st.visited \cup {next_node}]

\* find_potential_path_for_team, step 4, `visited_nodes.insert(next_node);
\* queue.push_back((new_path, next_pos))`
PushNext(st, path, next_node, next_pos) ==
    [st EXCEPT !.queue = Append(st.queue, [path |-> Append(path, next_node),
                                           tip |-> next_pos]),
               !.visited = st.visited \cup {next_node}]

\* one exit_dir without the `if !is_satisfiable(&all_demands) { continue; }`
ExploreExitAnyDemand(st, g, path, current_pos, prev_pos, claimed, idemands, exit_dir) ==
    LET next_pos == GetNeighborPos(g, current_pos, exit_dir)
        next_node == CanonicalNode(current_pos, next_pos)
    IN  IF next_pos = NoPos THEN st
        ELSE IF next_pos = prev_pos THEN st
        ELSE IF next_node \in st.visited \/ next_node \in claimed THEN st
        ELSE PushNext(st, path, next_node, next_pos)

\* find_potential_path_for_team, step 4, Tile::Empty arm, one exit_dir of
\* `for exit_dir in Direction::all_directions()`
ExploreExit(st, g, path, current_pos, prev_pos, claimed, idemands, exit_dir) ==
    LET next_pos == GetNeighborPos(g, current_pos, exit_dir)
        next_node == CanonicalNode(current_pos, next_pos)
        entry_dir == GetDirectionTowards(current_pos, prev_pos)
        all_demands == DemandsAt(idemands, current_pos)
                          \cup {NormalizeConnection(entry_dir, exit_dir)}
    IN  IF next_pos = NoPos THEN st
        ELSE IF next_pos = prev_pos THEN st
        ELSE IF next_node \in st.visited \/ next_node \in claimed THEN st
        ELSE IF ~IsSatisfiable(all_demands) THEN st
        ELSE PushNext(st, path, next_node, next_pos)

\* find_potential_path_for_team, step 4, Tile::Empty arm
RECURSIVE ExploreEmpty(_, _, _, _, _, _, _, _)
ExploreEmpty(st, g, path, current_pos, prev_pos, claimed, idemands, i) ==
    IF LoopEnd(st, i, Len(AllDirections)) THEN st
    ELSE ExploreEmpty(ExploreExit(st, g, path, current_pos, prev_pos, claimed,
                                  idemands, AllDirections[i]),
                      g, path, current_pos, prev_pos, claimed, idemands, i + 1)

\* find_potential_path_for_team, step 4: the successors of a dequeued path
Explore(st, g, path, current_pos, prev_pos, claimed, idemands) ==
    LET tile == TileAt(g, current_pos)
    IN  IF tile.kind = "Placed"
        THEN LET entry_dir == GetDirectionTowards(current_pos, prev_pos)
                 exit_dir == PlacedExit(tile, entry_dir)
                 next_pos == GetNeighborPos(g, current_pos, exit_dir)
                 next_node == CanonicalNode(current_pos, next_pos)
             IN  IF next_pos # NoPos /\ next_node \notin st.visited
                                     /\ next_node \notin claimed
                 THEN PushNext(st, path, next_node, next_pos)
                 ELSE st
        ELSE IF tile.kind = "Empty"
        THEN ExploreEmpty(st, g, path, current_pos, prev_pos, claimed, idemands, 1)
        ELSE st

\* find_potential_path_for_team, step 2, one turn of
\* `while let Some((path, current_pos)) = queue.pop_front()`; st.found holds
\* the path once `return Some(path)` has been reached
BfsStep(st, g, claimed, idemands, goal_edges) ==
    IF st.found # NoPath \/ st.queue = <<>> THEN st
    ELSE LET path == Head(st.queue).path
             current_pos == Head(st.queue).tip
             last_node == path[Len(path)]
             prev_pos == IF last_node[1] = current_pos THEN last_node[2]
                         ELSE last_node[1]
             popped == [st EXCEPT !.queue = Tail(st.queue)]
         IN  IF GoalReached(g, current_pos, prev_pos, idemands, goal_edges)
             THEN [popped EXCEPT !.found = path]
             ELSE Explore(popped, g, path, current_pos, prev_pos, claimed, idemands)

\* every node enters the queue at most once (visited_nodes), and a 7x7 grid
\* has fewer than 3 * 49 inter-hex edges, so the loop ends within QueueLimit turns
QueueLimit == 3 * 7 * 7

\* find_potential_path_for_team, the `while let` loop: at most n turns, the
\* first half of them before the second
RECURSIVE BfsLoop(_, _, _, _, _, _)
BfsLoop(st, n, g, claimed, idemands, goal_edges) ==
    IF st.found # NoPath \/ st.queue = <<>> THEN st
    ELSE IF n = 1 THEN BfsStep(st, g, claimed, idemands, goal_edges)
    ELSE LET half == BfsLoop(st, n \div 2, g, claimed, idemands, goal_edges)
         IN  IF Evaluated(half)
             THEN BfsLoop(half, n - n \div 2, g, claimed, idemands, goal_edges)
             ELSE half

\* find_potential_path_for_team, the value returned once the loop has ended:
\* `return Some(path)` from inside it, or the final `None`
PathFound(end) ==
    IF end.found # NoPath THEN end.found
    ELSE IF end.queue = <<>> THEN NoPath
    ELSE <<"queue limit exceeded">>

\* find_potential_path_for_team, `let goal_edges: HashSet<_> =
\* game.edges_on_board_edge(goal_side).into_iter().collect()`
GoalEdges(goal_slots) == { goal_slots[i] : i \in 1..Len(goal_slots) }

\* find_potential_path_for_team, the queue, the visited set and the path
\* found when the `while let` loop is left
SearchEnd(player, g, claimed, idemands) ==
    BfsLoop(StartQueue([queue |-> <<>>, visited |-> {}, found |-> NoPath],
                       g, EdgesOnBoardEdge(GetPlayerSides(player)[1]),
                       claimed, 1),
            QueueLimit, g, claimed, idemands,
            GoalEdges(EdgesOnBoardEdge(GetPlayerSides(player)[2])))

\* find_potential_path_for_team
FindPotentialPathForTeam(player, g, claimed, idemands) ==
    PathFound(SearchEnd(player, g, claimed, idemands))

\* claim_resources_for_path, the body of `for window in path.windows(2)`:
\* the demand recorded at the hex shared by two consecutive edges
ClaimWindow(idemands, node_a, node_b, g) ==
    LET turn_hex == IF node_a[1] = node_b[1] \/ node_a[1] = node_b[2]
                    THEN node_a[1] ELSE node_a[2]
        prev_hex == IF node_a[1] = turn_hex THEN node_a[2] ELSE node_a[1]
        next_hex == IF node_b[1] = turn_hex THEN node_b[2] ELSE node_b[1]
        entry_dir == GetDirectionTowards(turn_hex, prev_hex)
        exit_dir == GetDirectionTowards(turn_hex, next_hex)
        connection == NormalizeConnection(entry_dir, exit_dir)
    IN  IF TileAt(g, turn_hex) = Empty
        THEN [h \in DOMAIN idemands \cup {turn_hex} |->
                 IF h = turn_hex THEN DemandsAt(idemands, h) \cup {connection}
                 ELSE idemands[h]]
        ELSE idemands

\* claim_resources_for_path, `for window in path.windows(2)`
RECURSIVE ClaimWindows(_, _, _, _)
ClaimWindows(idemands, path, g, i) ==
    IF LoopEnd(idemands, i, Len(path) - 1) THEN idemands
    ELSE ClaimWindows(ClaimWindow(idemands, path[i], path[i + 1], g), path, g, i + 1)

\* claim_resources_for_path
ClaimResourcesForPath(path, claimed, idemands, g) ==
    [claimed_edges |-> claimed \cup { path[i] : i \in 1..Len(path) },
     internal_demands |-> IF Len(path) < 2 THEN idemands
                          ELSE ClaimWindows(idemands, path, g, 1),
     paths |-> <<>>,
     failing |-> None]

\* check_paths_for_ordering, the state before the loop
OrderingStart ==
    [claimed_edges |-> {}, internal_demands |-> <<>>, paths |-> <<>>, failing |-> None]

\* check_paths_for_ordering, `if let Some(p) = path { claim_resources_for_path(..)
\* } else { return Some(player) }` for the path the search returned
OrderingClaim(st, player, g, path) ==
    IF path # NoPath
    THEN [ClaimResourcesForPath(path, st.claimed_edges, st.internal_demands, g)
            EXCEPT !.paths = Append(st.paths, [player |-> player, path |-> path])]
    ELSE [st EXCEPT !.failing = player]

\* check_paths_for_ordering, the body of `for &player in ordered_players`
OrderingStep(st, player, g) ==
    OrderingClaim(st, player, g,
                  FindPotentialPathForTeam(player, g, st.claimed_edges,
                                           st.internal_demands))

\* check_paths_for_ordering, `for &player in ordered_players`, left at the
\* first failing player
RECURSIVE OrderingLoop(_, _, _, _)
OrderingLoop(st, ordered_players, g, i) ==
    IF LoopEnd(st, i, Len(ordered_players)) \/ st.failing # None THEN st
    ELSE OrderingLoop(OrderingStep(st, ordered_players[i], g), ordered_players, g, i + 1)

\* check_paths_for_ordering: the failing player, or None
CheckPathsForOrdering(ordered_players, g) ==
    OrderingLoop(OrderingStart, ordered_players, g, 1).failing

\* the players listed from the player to move onwards
DefaultOrderingFromMover(g) ==
    [i \in 1..g.num_players |-> (g.current_player + i - 1) % g.num_players]

\* has_distinct_potential_paths, `(0..game.num_players()).collect()`
DefaultOrdering(g) == [i \in 1..g.num_players |-> i - 1]

\* reordered_players with the failing player moved to the back
ReorderedPlayersLast(players, failing_player) ==
    SelectSeq(players, LAMBDA p : p # failing_player) \o <<failing_player>>

\* has_distinct_potential_paths, reordered_players
ReorderedPlayers(players, failing_player) ==
    <<failing_player>> \o SelectSeq(players, LAMBDA p : p # failing_player)

\* has_distinct_potential_paths, `if let Some(failing_player) = .. { .. } true`
\* for the result of the first ordering
RetryOrdering(players, failing_player, g) ==
    IF failing_player # None
    THEN CheckPathsForOrdering(ReorderedPlayers(players, failing_player), g) = None
    ELSE TRUE

\* has_distinct_potential_paths
HasDistinctPotentialPaths(g) ==
    RetryOrdering(DefaultOrdering(g), CheckPathsForOrdering(DefaultOrdering(g), g), g)

\* is_move_legal without `if game.outcome().is_some() { return true }`
IsMoveLegalNoOverride(g) == HasDistinctPotentialPaths(g)

\* is_move_legal
IsMoveLegal(g) ==
    IF g.outcome # NoOutcome THEN TRUE ELSE HasDistinctPotentialPaths(g)

----------------------------------------------------------------------------
(* Game::apply_action                                                      *)

DrawTileAction(player, tile) == [kind |-> "DrawTile", player |-> player, tile |-> tile]
RevealTileAction(player, tile) == [kind |-> "RevealTile", player |-> player, tile |-> tile]
PlaceTileAction(player, tile, pos, rotation) ==
    [kind |-> "PlaceTile", player |-> player, tile |-> tile, pos |-> pos,
     rotation |-> rotation]

\* the Result<(), String> of apply_action, with the game as the call leaves it
Ok(g) == [game |-> g, result |-> "Ok"]
Err(g, msg) == [game |-> g, result |-> msg]

ErrInitializedTwice == "Game initialized twice"
ErrAlreadyHasTile == "Player already has a tile in hand"
ErrNoTilesRemaining == "No tiles remaining of drawn type"
ErrMustReveal == "Must reveal actual tile that player holds"
ErrGameOver == "Game is already over"
ErrNotInHand == "Player must play the tile from their hand"
ErrNotEmpty == "Can only place tile on an empty space"
ErrWrongTurn == "Wrong player's turn"
ErrIllegalMove == "Illegal move: blocks another player"

ErrorMessages ==
    {ErrInitializedTwice, ErrAlreadyHasTile, ErrNoTilesRemaining, ErrMustReveal,
     ErrGameOver, ErrNotInHand, ErrNotEmpty, ErrWrongTurn, ErrIllegalMove}

\* apply_action, `self.action_history.push(action); Ok(())`
PushHistory(g, action) ==
    Ok([g EXCEPT !.action_history = Append(g.action_history, action)])

\* apply_action, Action::DrawTile arm
ApplyDrawTile(g, a) ==
    IF g.tiles_in_hand[a.player] # None THEN Err(g, ErrAlreadyHasTile)
    ELSE IF g.remaining_tiles[a.tile] = 0 THEN Err(g, ErrNoTilesRemaining)
    ELSE PushHistory([g EXCEPT !.tiles_in_hand[a.player] = a.tile,
                               !.remaining_tiles[a.tile] = @ - 1], a)

\* apply_action, Action::RevealTile arm
ApplyRevealTile(g, a) ==
    IF g.tiles_in_hand[a.player] # None /\ g.tiles_in_hand[a.player] # a.tile
    THEN Err(g, ErrMustReveal)
    ELSE PushHistory([g EXCEPT !.tiles_in_hand[a.player] = a.tile], a)

\* apply_action, Action::PlaceTile arm, the candidate: `temp_game = self.clone()`
\* with the tile placed and the flows recomputed
CandidateGame(g, a) ==
    RecomputeFlows([g EXCEPT !.board[a.pos[1]][a.pos[2]] = NewPlacedTile(a.tile, a.rotation)])

\* the commit advancing the turn after a winning placement too
CommitPlacementAlwaysAdvances(g, a) ==
    [RecomputeFlows([g EXCEPT !.board[a.pos[1]][a.pos[2]] = NewPlacedTile(a.tile, a.rotation),
                              !.tiles_in_hand[a.player] = None])
        EXCEPT !.current_player = (@ + 1) % g.num_players]

\* the commit without the turn advance
CommitPlacementKeepsTurn(g, a) ==
    RecomputeFlows([g EXCEPT !.board[a.pos[1]][a.pos[2]] = NewPlacedTile(a.tile, a.rotation),
                             !.tiles_in_hand[a.player] = None])

\* apply_action, Action::PlaceTile arm, "If legal, apply to the actual game"
CommitPlacement(g, a) ==
    LET placed == RecomputeFlows(
                     [g EXCEPT !.board[a.pos[1]][a.pos[2]] = NewPlacedTile(a.tile, a.rotation),
                               !.tiles_in_hand[a.player] = None])
    IN  IF placed.outcome = NoOutcome
        THEN [placed EXCEPT !.current_player = (@ + 1) % placed.num_players]
        ELSE placed

\* the PlaceTile arm without the legality check
ApplyPlaceTileUnchecked(g, a) ==
    IF g.outcome # NoOutcome THEN Err(g, ErrGameOver)
    ELSE IF g.tiles_in_hand[a.player] # None /\ g.tiles_in_hand[a.player] # a.tile
    THEN Err(g, ErrNotInHand)
    ELSE IF TileAt(g, a.pos) # Empty THEN Err(g, ErrNotEmpty)
    ELSE IF g.current_player # a.player THEN Err(g, ErrWrongTurn)
    ELSE PushHistory(CommitPlacement(g, a), a)

\* the PlaceTile arm trying the placement on the game itself, not on a clone
ApplyPlaceTileInPlace(g, a) ==
    IF g.outcome # NoOutcome THEN Err(g, ErrGameOver)
    ELSE IF g.tiles_in_hand[a.player] # None /\ g.tiles_in_hand[a.player] # a.tile
    THEN Err(g, ErrNotInHand)
    ELSE IF TileAt(g, a.pos) # Empty THEN Err(g, ErrNotEmpty)
    ELSE IF g.current_player # a.player THEN Err(g, ErrWrongTurn)
    ELSE IF ~IsMoveLegal(CandidateGame(g, a))
    THEN Err(CandidateGame(g, a), ErrIllegalMove)
    ELSE PushHistory(CommitPlacement(g, a), a)

\* the PlaceTile arm without the check of the target cell
ApplyPlaceTileAnyCell(g, a) ==
    IF g.outcome # NoOutcome THEN Err(g, ErrGameOver)
    ELSE IF g.tiles_in_hand[a.player] # None /\ g.tiles_in_hand[a.player] # a.tile
    THEN Err(g, ErrNotInHand)
    ELSE IF g.current_player # a.player THEN Err(g, ErrWrongTurn)
    ELSE IF ~IsMoveLegal(CandidateGame(g, a)) THEN Err(g, ErrIllegalMove)
    ELSE PushHistory(CommitPlacement(g, a), a)

\* apply_action, Action::PlaceTile arm; the placement is rejected when
\* is_move_legal (a bool in legality.rs) does not report the candidate legal
ApplyPlaceTile(g, a) ==
    IF g.outcome # NoOutcome THEN Err(g, ErrGameOver)
    ELSE IF g.tiles_in_hand[a.player] # None /\ g.tiles_in_hand[a.player] # a.tile
    THEN Err(g, ErrNotInHand)
    ELSE IF TileAt(g, a.pos) # Empty THEN Err(g, ErrNotEmpty)
    ELSE IF g.current_player # a.player THEN Err(g, ErrWrongTurn)
    ELSE IF ~IsMoveLegal(CandidateGame(g, a)) THEN Err(g, ErrIllegalMove)
    ELSE PushHistory(CommitPlacement(g, a), a)

\* Game::apply_action
ApplyAction(g, a) ==
    CASE a.kind = "InitializeGame" -> Err(g, ErrInitializedTwice)
      [] a.kind = "DrawTile" -> ApplyDrawTile(g, a)
      [] a.kind = "RevealTile" -> ApplyRevealTile(g, a)
      [] a.kind = "PlaceTile" -> ApplyPlaceTile(g, a)

----------------------------------------------------------------------------
(* Spec: a Game driven through apply_action                                *)

\* bound on the number of apply_action calls of one run
MaxCalls == 2

\* a list of (tile, pos, rotation) placed with with_tile_placed, as the tests
\* build their boards
RECURSIVE PlaceAll(_, _)
PlaceAll(g, script) ==
    IF Evaluated(g) /\ script = <<>> THEN g
    ELSE PlaceAll(WithTilePlaced(g, script[1][1], script[1][2], script[1][3]),
                  Tail(script))

\* tests/illegal_moves.rs, test_simple_block_fails: a row of OneSharp tiles
\* across the middle of the board with a hole at (3,3); player 1 to move
WallScript ==
    << <<OneSharp, <<3, 0>>, 0>>, <<OneSharp, <<3, 1>>, 0>>, <<OneSharp, <<3, 2>>, 0>>,
       <<OneSharp, <<3, 4>>, 0>>, <<OneSharp, <<3, 5>>, 0>>, <<OneSharp, <<3, 6>>, 0>> >>

WallGame == SetCurrentPlayerForTesting(PlaceAll(NewGame(2), WallScript), 1)

\* the same row made of TwoSharps tiles: closing the hole with a TwoSharps
\* joins player 1's two sides along the row and cuts player 0 off
StraightScript ==
    [i \in 1..6 |-> <<TwoSharps, WallScript[i][2], 0>>]

StraightGame == SetCurrentPlayerForTesting(PlaceAll(NewGame(2), StraightScript), 1)

\* tests/illegal_moves.rs, test_user_provided_scenario_is_illegal: three of
\* player 0's four start hexes hold tiles that turn the flow back to the
\* edge; player 1 to move
StartRowScript ==
    << <<OneSharp, <<0, 0>>, 0>>, <<TwoSharps, <<0, 1>>, 0>>, <<OneSharp, <<0, 2>>, 0>> >>

StartRowGame == SetCurrentPlayerForTesting(PlaceAll(NewGame(2), StartRowScript), 1)

\* the mover draws a OneSharp and places it at pos, through apply_action
DrawAndPlace(g, pos) ==
    ApplyAction(ApplyAction(g, DrawTileAction(g.current_player, OneSharp)).game,
                PlaceTileAction(g.current_player, OneSharp, pos, 0)).game

RECURSIVE PlayAll(_, _)
PlayAll(g, cells) ==
    IF Evaluated(g) /\ cells = <<>> THEN g
    ELSE PlayAll(DrawAndPlace(g, cells[1]), Tail(cells))

\* ten turns that use up the OneSharp tiles
ExhaustCells ==
    << <<3, 0>>, <<3, 1>>, <<3, 2>>, <<3, 4>>, <<3, 5>>, <<3, 6>>,
       <<2, 0>>, <<2, 1>>, <<2, 2>>, <<2, 3>> >>

\* a game played through apply_action until no OneSharp is left to draw
ExhaustedGame == PlayAll(NewGame(2), ExhaustCells)

\* the games a run starts from: a new game, a board set up as in the tests,
\* or a game played until a tile type is used up
StartGames ==
    {NewGame(2), NewGame(3), WallGame, StraightGame, StartRowGame, ExhaustedGame}

\* the inputs of the driver
DrawTiles == {OneSharp}
RevealTiles == {TwoSharps}
PlaceMoves ==
    { <<OneSharp, <<3, 3>>, 0>>, <<TwoSharps, <<3, 3>>, 0>>, <<OneSharp, <<3, 4>>, 0>>,
      <<ThreeSharps, <<0, 3>>, 0>>, <<OneSharp, <<6, 0>>, 0>>, <<OneSharp, <<7, 3>>, 0>> }

Players(g) == 0..(g.num_players - 1)

Init ==
    /\ game \in StartGames
    /\ result = "None"
    /\ calls = 0
    /\ cand = NewGame(2) /\ ordering = <<>> /\ idx = 0 /\ attempt = 0
    /\ claimed_edges = {} /\ internal_demands = <<>> /\ paths = <<>>
    /\ first_failing = None /\ verdict = "idle"
    /\ demands = {} /\ sat_result = "none"
    /\ query = NoQuery /\ answer = <<>>

\* one call of apply_action by the driver
Returned(r) ==
    /\ game' = r.game
    /\ result' = r.result
    /\ calls' = calls + 1
    /\ UNCHANGED <<validatorVars, oracleVars, geometryVars>>

Call(a) == calls < MaxCalls /\ Returned(ApplyAction(game, a))

CallInitializeGame == \E n \in {2, 3} : Call(InitializeGameAction(n))

CallDrawTile == \E p \in Players(game), t \in DrawTiles : Call(DrawTileAction(p, t))

CallRevealTile == \E p \in Players(game), t \in RevealTiles : Call(RevealTileAction(p, t))

CallPlaceTile ==
    \E p \in Players(game), m \in PlaceMoves : Call(PlaceTileAction(p, m[1], m[2], m[3]))

Next == CallInitializeGame \/ CallDrawTile \/ CallRevealTile \/ CallPlaceTile

Spec == Init /\ [][Next]_vars

----------------------------------------------------------------------------
(* Potential paths, as the specification defines them                      *)

\* A potential path of a player is a walk from one of the player's start
\* boundary slots to one of the goal boundary slots: through a Placed hex it
\* follows the tile's entrance -> exit mapping, through an Empty hex it may
\* take any entrance/exit pair.  A port is <<hex, entrance>>; the walk comes
\* in at a start slot by the slot's own direction, as the flow does.
\* avoid = <<H, c>> forbids connection c through the Empty hex H (NoPos: none).
SlotSet(slots) == { slots[i] : i \in 1..Len(slots) }

PortExits(g, port, avoid) ==
    LET tile == TileAt(g, port[1])
    IN  IF tile.kind = "Placed" THEN {PlacedExit(tile, port[2])}
        ELSE IF tile.kind = "Empty"
        THEN { x \in Directions :
                 /\ x # port[2]
                 /\ avoid # <<port[1], NormalizeConnection(port[2], x)>> }
        ELSE {}

RECURSIVE WalkPorts(_, _, _, _)
WalkPorts(g, seen, frontier, avoid) ==
    LET next == UNION { { <<AdjacentTile(g, port[1], x), DirReversed(x)>> :
                            x \in { y \in PortExits(g, port, avoid) :
                                      AdjacentTile(g, port[1], y) # NoPos } }
                        : port \in frontier } \ seen
    IN  IF next = {} THEN seen
        ELSE WalkPorts(g, seen \cup next, next, avoid)

\* player has a potential path on g that does not use the avoided connection
HasPotentialPathAvoiding(player, g, avoid) ==
    LET start == SlotSet(EdgesOnBoardEdge(GetPlayerSides(player)[1]))
        goal == SlotSet(EdgesOnBoardEdge(GetPlayerSides(player)[2]))
    IN  \E port \in WalkPorts(g, start, start, avoid) :
           \E x \in PortExits(g, port, avoid) : <<port[1], x>> \in goal

HasPotentialPath(player, g) == HasPotentialPathAvoiding(player, g, NoPos)

----------------------------------------------------------------------------
(* Properties of apply_action, checked under Spec                          *)

LastAction(g) == g.action_history[Len(g.action_history)]

\* the last call of apply_action was a PlaceTile and returned Ok
PlacementAccepted == result = "Ok" /\ LastAction(game).kind = "PlaceTile"

\* C1: after every PlaceTile that apply_action accepts, the board written to
\* the game (the candidate's: the tile placed, flows recomputed) has outcome
\* Victory or passes has_distinct_potential_paths; no placement that the
\* validator rejects and that wins nothing is ever on the game's board
C1_AcceptedPlacementIsValidated ==
    PlacementAccepted =>
        \/ game.outcome # NoOutcome
        \/ HasDistinctPotentialPaths(game)

\* an accepted placement that won nothing: the validator had to pass it
C1_Witness ==
    /\ PlacementAccepted
    /\ game.outcome = NoOutcome
    /\ Len(game.action_history) = 2

\* C2: a call of apply_action that returns Err leaves every field of the
\* Game as it was
C2_ErrLeavesGameUnchanged ==
    [][(calls' # calls /\ result' \in ErrorMessages) => game' = game]_vars

\* a placement rejected as illegal on the board of test_simple_block_fails
C2_Witness ==
    /\ result = ErrIllegalMove
    /\ game = WallGame

\* C3: whenever the candidate of a placement that passes apply_action's other
\* checks has outcome Victory, is_move_legal reports legal and apply_action
\* accepts the placement
C3_ImmediateWinOverride ==
    \A m \in PlaceMoves :
        (/\ game.outcome = NoOutcome
         /\ game.tiles_in_hand[game.current_player] \in {None, m[1]}
         /\ TileAt(game, m[2]) = Empty
         /\ CandidateGame(game, PlaceTileAction(game.current_player, m[1], m[2], m[3])).outcome
               # NoOutcome)
        => /\ IsMoveLegal(CandidateGame(game, PlaceTileAction(game.current_player,
                                                              m[1], m[2], m[3])))
           /\ ApplyAction(game, PlaceTileAction(game.current_player, m[1], m[2], m[3])).result
                 = "Ok"

\* an accepted winning placement that leaves another player without any
\* potential path, and that the path search would have rejected
C3_Witness ==
    /\ PlacementAccepted
    /\ game.outcome # NoOutcome
    /\ \E p \in Players(game) : ~HasPotentialPath(p, game)
    /\ ~HasDistinctPotentialPaths(game)

\* C20: apply_action accepts a PlaceTile only if its tile is the tile in the
\* player's hand (an empty hand holds no tile), and the accepted placement
\* leaves that hand empty
C20_TileInHandCheck ==
    [][(calls' # calls /\ result' = "Ok" /\ LastAction(game').kind = "PlaceTile") =>
          /\ game.tiles_in_hand[LastAction(game').player] = LastAction(game').tile
          /\ game'.tiles_in_hand[LastAction(game').player] = None]_vars

\* the call of apply_action this step makes returned Ok for an action of `kind`
Accepted(kind) ==
    calls' # calls /\ result' = "Ok" /\ LastAction(game').kind = kind

FirstSteps(g, slot) ==
    StartSlot([queue |-> <<>>, visited |-> {}, found |-> NoPath], g, slot, {}).queue

\* C21: from a start boundary slot (hex, dir) on a Placed hex the search
\* takes one first step, across the exit the tile gives for the port dir
\* facing the slot, the edge recompute_flows carries the flow across; it
\* takes none if that exit leaves the board
C21_StartStepFollowsFlow ==
    \A p \in Players(game) : \A i \in 1..7 :
        LET slot == EdgesOnBoardEdge(GetPlayerSides(p)[1])[i]
            tile == TileAt(game, slot[1])
        IN  tile.kind = "Placed" =>
               LET next_pos == GetNeighborPos(game, slot[1], PlacedExit(tile, slot[2]))
               IN  IF next_pos = NoPos
                   THEN FirstSteps(game, slot) = <<>>
                   ELSE FirstSteps(game, slot) =
                           <<[path |-> <<CanonicalNode(slot[1], next_pos)>>, tip |-> next_pos]>>

\* C5: a candidate with no Victory on which some player has no potential
\* path at all is never accepted: after an accepted placement that won
\* nothing, every player has a potential path
C5_WallRejected ==
    (PlacementAccepted /\ game.outcome = NoOutcome)
    => \A p \in Players(game) : HasPotentialPath(p, game)

----------------------------------------------------------------------------
(* The satisfiability oracle on its own: SpecOracle                        *)

MaxDemands == 4

\* the normalized (smaller direction first) pairs of directions
NormalizedPairs == { <<d1, d2>> \in Directions \X Directions : d1 < d2 }

\* the answer of is_satisfiable as the caller sees it
SatAnswer(b) == IF b THEN "sat" ELSE "unsat"

InitOracle ==
    /\ demands = {}
    /\ sat_result = "none"
    /\ query = NoQuery /\ answer = <<>>
    /\ game = NewGame(2) /\ result = "None" /\ calls = 0
    /\ cand = NewGame(2) /\ ordering = <<>> /\ idx = 0 /\ attempt = 0
    /\ claimed_edges = {} /\ internal_demands = <<>> /\ paths = <<>>
    /\ first_failing = None /\ verdict = "idle"

\* find_potential_path_for_team asks the oracle about the demands at a hex
\* with one more connection: `all_demands.insert(new_connection);
\* is_satisfiable(&all_demands)`
AskWithDemand ==
    \E c \in NormalizedPairs \ demands :
        /\ Cardinality(demands) < MaxDemands
        /\ demands' = demands \cup {c}
        /\ sat_result' = SatAnswer(IsSatisfiable(demands \cup {c}))
        /\ UNCHANGED <<gameVars, validatorVars, geometryVars>>

\* the oracle asked about a hex that carries no demand yet
AskEmpty ==
    /\ demands' = {}
    /\ sat_result' = SatAnswer(IsSatisfiable({}))
    /\ UNCHANGED <<gameVars, validatorVars, geometryVars>>

NextOracle == AskWithDemand \/ AskEmpty

SpecOracle == InitOracle /\ [][NextOracle]_vars

\* the three normalized connection pairs of one tile configuration, read off
\* the tile's entrance -> exit mapping
ConfigPairs(t, r) ==
    { NormalizeConnection(d, PlacedExit(NewPlacedTile(t, r), d)) : d \in Directions }

\* some one of the 24 configurations provides every pair of D
SomeConfigProvides(D) ==
    \E t \in TileTypes, r \in Rotations : D \subseteq ConfigPairs(t, r)

\* C10: is_satisfiable(D) is true iff D is empty or D is a subset of the
\* three pairs of some one of the 24 configurations; a D with more than
\* three pairs, or with two distinct pairs sharing a direction, is
\* unsatisfiable
C10_OracleCorrect ==
    sat_result # "none" =>
        /\ sat_result = SatAnswer(demands = {} \/ SomeConfigProvides(demands))
        /\ Cardinality(demands) > 3 => sat_result = "unsat"
        /\ (\E c1, c2 \in demands :
               c1 # c2 /\ {c1[1], c1[2]} \cap {c2[1], c2[2]} # {})
           => sat_result = "unsat"
        /\ \A t \in TileTypes, r \in Rotations : Cardinality(ConfigPairs(t, r)) = 3

\* the oracle has been asked about more than three pairs and has refused
C10_Witness ==
    /\ Cardinality(demands) = 4
    /\ sat_result = "unsat"

\* C11: every single connection, one normalized pair of distinct directions,
\* is answered satisfiable, being provided by some tile type and rotation;
\* there are 15 such connections
C11_SingleDemandSatisfiable ==
    /\ Cardinality(NormalizedPairs) = 15
    /\ Cardinality(demands) = 1 =>
          /\ sat_result = "sat"
          /\ \E t \in TileTypes, r \in Rotations :
                \E d \in Directions :
                   demands = {NormalizeConnection(d, PlacedExit(NewPlacedTile(t, r), d))}

\* the oracle asked about the sharp connection (0,1) alone
C11_Witness == demands = {<<0, 1>>} /\ sat_result = "sat"

----------------------------------------------------------------------------
(* The validator step by step: SpecValidator                               *)

\* a board on which player 1's search fails after player 0 has claimed its
\* path, and succeeds when player 1 searches first; player 1 to move
RetryScript ==
    << <<TwoSharps, <<2, 1>>, 5>>, <<NoSharps, <<4, 1>>, 4>>, <<OneSharp, <<5, 2>>, 3>> >>

RetryGame == SetCurrentPlayerForTesting(PlaceAll(NewGame(2), RetryScript), 1)

\* three players, the third one's start side nearly closed
ThreeScript ==
    << <<OneSharp, <<3, 5>>, 4>>, <<NoSharps, <<3, 6>>, 1>>, <<TwoSharps, <<4, 5>>, 1>> >>

ThreeGame == PlaceAll(NewGame(3), ThreeScript)

\* nine tiles that close the Empty goal hex (6,5) of player 0 in and leave
\* the goal side open only through the tiles at (5,3) and (6,4)
LoopGame ==
    PlaceAll(NewGame(2),
    << <<TwoSharps, <<0, 0>>, 0>>, <<TwoSharps, <<2, 2>>, 0>>, <<OneSharp, <<3, 4>>, 1>>,
       <<OneSharp, <<5, 3>>, 0>>, <<ThreeSharps, <<5, 4>>, 2>>, <<ThreeSharps, <<5, 5>>, 0>>,
       <<ThreeSharps, <<6, 3>>, 3>>, <<ThreeSharps, <<6, 4>>, 0>>, <<ThreeSharps, <<6, 6>>, 0>> >>)

\* the retry board after player 1 has drawn a tile through apply_action
RetryHandGame == ApplyAction(RetryGame, DrawTileAction(1, OneSharp)).game

\* the boards a placement is tried on
ValidatorGames ==
    {NewGame(2), NewGame(3), WallGame, StraightGame, StartRowGame, RetryGame, ThreeGame,
     RetryHandGame, ExhaustedGame, LoopGame}

\* the placements tried
ValidatorMoves ==
    { <<OneSharp, <<3, 3>>, 0>>, <<TwoSharps, <<3, 3>>, 0>>, <<NoSharps, <<3, 3>>, 1>>,
      <<ThreeSharps, <<0, 3>>, 0>>, <<OneSharp, <<6, 3>>, 3>>, <<TwoSharps, <<6, 6>>, 5>> }

InitValidator ==
    /\ game \in ValidatorGames
    /\ verdict = "idle"
    /\ cand = game
    /\ ordering = <<>> /\ idx = 0 /\ attempt = 0
    /\ claimed_edges = {} /\ internal_demands = <<>> /\ paths = <<>>
    /\ first_failing = None
    /\ result = "None" /\ calls = 0
    /\ demands = {} /\ sat_result = "none"
    /\ query = NoQuery /\ answer = <<>>

\* apply_action, `let mut temp_game = self.clone(); *temp_game.tile_mut(pos) =
\* ..; temp_game.recompute_flows()`: the candidate the validator is given
MakeCandidate ==
    \E m \in ValidatorMoves :
        /\ verdict = "idle"
        /\ TileAt(game, m[2]) = Empty
        /\ cand' = CandidateGame(game, PlaceTileAction(game.current_player,
                                                       m[1], m[2], m[3]))
        /\ verdict' = "candidate"
        /\ UNCHANGED <<ordering, idx, attempt, claimed_edges, internal_demands,
                       paths, first_failing, gameVars, oracleVars, geometryVars>>

\* the validator's working state before the first player of an ordering
BeginOrdering(n, ordered_players, failed) ==
    /\ attempt' = n
    /\ ordering' = ordered_players
    /\ idx' = 1
    /\ claimed_edges' = OrderingStart.claimed_edges
    /\ internal_demands' = OrderingStart.internal_demands
    /\ paths' = OrderingStart.paths
    /\ first_failing' = failed

\* is_move_legal: Victory on the candidate is legal at once; otherwise
\* has_distinct_potential_paths starts check_paths_for_ordering on the
\* players in index order
StartValidation ==
    /\ verdict = "candidate"
    /\ IF cand.outcome # NoOutcome
       THEN /\ verdict' = "legal"
            /\ UNCHANGED <<ordering, idx, attempt, claimed_edges, internal_demands,
                           paths, first_failing>>
       ELSE /\ verdict' = "checking"
            /\ BeginOrdering(1, DefaultOrdering(cand), None)
    /\ UNCHANGED <<cand, gameVars, oracleVars, geometryVars>>

\* what a turn of `for &player in ordered_players` leaves: the path claimed,
\* or Some(player), which has_distinct_potential_paths answers with the
\* second ordering (after the first) or with false (after the second)
AfterPlayer(st) ==
    IF st.failing = None
    THEN /\ claimed_edges' = st.claimed_edges
         /\ internal_demands' = st.internal_demands
         /\ paths' = st.paths
         /\ idx' = idx + 1
         /\ UNCHANGED <<verdict, ordering, attempt, first_failing>>
    ELSE IF attempt = 1
    THEN /\ BeginOrdering(2, ReorderedPlayers(ordering, st.failing), st.failing)
         /\ UNCHANGED verdict
    ELSE /\ verdict' = "illegal"
         /\ UNCHANGED <<ordering, idx, attempt, claimed_edges, internal_demands,
                        paths, first_failing>>

\* check_paths_for_ordering, one turn of the loop
StepPlayer ==
    /\ verdict = "checking"
    /\ idx <= Len(ordering)
    /\ AfterPlayer(OrderingStep([claimed_edges |-> claimed_edges,
                                 internal_demands |-> internal_demands,
                                 paths |-> paths, failing |-> None],
                                ordering[idx], cand))
    /\ UNCHANGED <<cand, gameVars, oracleVars, geometryVars>>

\* check_paths_for_ordering, `None` after the last player
FinishOrdering ==
    /\ verdict = "checking"
    /\ idx > Len(ordering)
    /\ verdict' = "legal"
    /\ UNCHANGED <<cand, ordering, idx, attempt, claimed_edges, internal_demands,
                   paths, first_failing, gameVars, oracleVars, geometryVars>>

NextValidator == MakeCandidate \/ StartValidation \/ StepPlayer \/ FinishOrdering

SpecValidator == InitValidator /\ [][NextValidator]_vars

----------------------------------------------------------------------------
(* Properties of the validator, checked under SpecValidator                *)

\* the players in index order 0..n-1
IndexOrder(n) == [i \in 1..n |-> i - 1]

\* player x first, all other players in their relative index order
MoveToFront(n, x) == [i \in 1..n |-> IF i = 1 THEN x ELSE IF i - 2 < x THEN i - 2 ELSE i - 1]

\* the index order succeeds, or it fails at x and the order with x first succeeds
TwoOrderingsSucceed(g, x) ==
    x = None \/ CheckPathsForOrdering(MoveToFront(g.num_players, x), g) = None

Decided == verdict \in {"legal", "illegal"}

\* C4: with no Victory on the candidate, the verdict is legal exactly when the
\* index ordering succeeds or, failing at player X, the ordering with X first
\* and the others in index order succeeds; the second run starts from empty
\* claimed_edges and internal_demands; there is no third run; and the
\* stepwise verdict is is_move_legal's answer
C4_TwoOrderingDecision ==
    /\ attempt \in 0..2
    /\ (attempt = 2 /\ idx = 1) => (claimed_edges = {} /\ internal_demands = <<>>)
    /\ attempt = 2 => /\ first_failing # None
                      /\ ordering = MoveToFront(cand.num_players, first_failing)
    /\ attempt = 1 => ordering = IndexOrder(cand.num_players)
    /\ (Decided /\ cand.outcome = NoOutcome) =>
          /\ (verdict = "legal") <=>
                 TwoOrderingsSucceed(cand, CheckPathsForOrdering(
                                               IndexOrder(cand.num_players), cand))
          /\ (verdict = "legal") <=> IsMoveLegal(cand)

\* the second ordering ran and succeeded where the first had failed
C4_Witness == verdict = "legal" /\ attempt = 2 /\ first_failing # None

\* a game with the board, the sides and the outcome of g and everything
\* else as Game::new leaves it
SameBoardFreshGame(g) ==
    [NewGame(g.num_players) EXCEPT !.board = g.board, !.outcome = g.outcome]

\* all a legality check computes: the paths and the failing player of the
\* index ordering, those of the second ordering, and the answer
CheckRecord(g, first) ==
    [first |-> first,
     second |-> IF first.failing = None THEN first
                ELSE OrderingLoop(OrderingStart,
                                  ReorderedPlayers(DefaultOrdering(g), first.failing), g, 1),
     legal |-> IsMoveLegal(g)]

ValidatorRecord(g) == CheckRecord(g, OrderingLoop(OrderingStart, DefaultOrdering(g), g, 1))

BoardCells(g) ==
    { pos \in (0..6) \X (0..6) : TileAt(g, pos) # NotOnBoard }

\* the two hexes of an inter-hex edge, without direction
Boundary(node) == {node[1], node[2]}

\* C8: canonical_node gives one key to a boundary whichever side it is named
\* from, and the paths accepted within one ordering never share a boundary,
\* first edges included; every edge of an accepted path is claimed
C8_EdgeDisjointPaths ==
    /\ \A a \in BoardCells(cand) : \A d \in Directions :
          LET b == GetNeighborPos(cand, a, d)
          IN  b # NoPos => CanonicalNode(a, b) = CanonicalNode(b, a)
    /\ \A i \in 1..Len(paths) : \A j \in 1..Len(paths) :
          i < j => \A k \in 1..Len(paths[i].path) : \A l \in 1..Len(paths[j].path) :
                      Boundary(paths[i].path[k]) # Boundary(paths[j].path[l])
    /\ \A i \in 1..Len(paths) : \A k \in 1..Len(paths[i].path) :
          \E e \in claimed_edges : Boundary(e) = Boundary(paths[i].path[k])

\* three players' paths accepted in one ordering
C8_Witness == Len(paths) = 3 /\ verdict = "legal"

\* C9: after every claimed path, the demands accumulated at each hex are at
\* an Empty hex and are jointly provided by one tile configuration
C9_DemandsSatisfiable ==
    \A h \in DOMAIN internal_demands :
        /\ TileAt(cand, h) = Empty
        /\ SomeConfigProvides(internal_demands[h])

\* two connections demanded at one Empty hex
C9_Witness ==
    \E h \in DOMAIN internal_demands : Cardinality(internal_demands[h]) >= 2

\* the hex of an edge that is not h
OtherHex(node, h) == IF node[1] = h THEN node[2] ELSE node[1]

\* the hexes a path visits when walked from h0: h0, then the far hex of
\* every edge in turn
RECURSIVE HexesAlong(_, _)
HexesAlong(path, h0) ==
    IF path = <<>> THEN <<h0>>
    ELSE <<h0>> \o HexesAlong(Tail(path), OtherHex(path[1], h0))

\* the hexes carrying a boundary slot of a side
SideHexes(side) == { slot[1] : slot \in SlotSet(EdgesOnBoardEdge(side)) }

\* path is a sound potential path of player on g, found with the edges
\* claimed and the demands idemands of the players before
SoundPath(player, path, g, claimed, idemands) ==
    \E h0 \in Boundary(path[1]) :
        LET w == HexesAlong(path, h0)
            k == Len(path)
            tip == w[k + 1]
            goal_slots == SlotSet(EdgesOnBoardEdge(GetPlayerSides(player)[2]))
        IN  /\ h0 \in SideHexes(GetPlayerSides(player)[1])
            /\ \A i \in 1..k : Boundary(path[i]) = {w[i], w[i + 1]} /\ w[i] # w[i + 1]
            /\ \A i \in 1..(k - 1) :
                  /\ Boundary(path[i]) \cap Boundary(path[i + 1]) = {w[i + 1]}
                  /\ TileAt(g, w[i + 1]).kind = "Placed" =>
                        PlacedExit(TileAt(g, w[i + 1]), GetDirectionTowards(w[i + 1], w[i]))
                           = GetDirectionTowards(w[i + 1], w[i + 2])
            /\ \A i \in 1..k : \A e \in claimed : Boundary(e) # Boundary(path[i])
            /\ \A i \in 1..k : \A j \in 1..k : i < j => Boundary(path[i]) # Boundary(path[j])
            /\ tip \in SideHexes(GetPlayerSides(player)[2])
            /\ IF TileAt(g, tip).kind = "Placed"
               THEN <<tip, PlacedExit(TileAt(g, tip), GetDirectionTowards(tip, w[k]))>>
                       \in goal_slots
               ELSE /\ TileAt(g, tip) = Empty
                    /\ \E slot \in goal_slots :
                          /\ slot[1] = tip
                          /\ SomeConfigProvides(
                                DemandsAt(idemands, tip)
                                   \cup {NormalizeConnection(GetDirectionTowards(tip, w[k]),
                                                             slot[2])})

\* C22: every path find_potential_path_for_team returns starts at a hex of the
\* player's start side, has consecutive edges that share exactly one hex,
\* follows the tile through every Placed hex, uses no claimed edge and no
\* edge twice, and ends in a goal-side hex whose forced exit (Placed) or some
\* exit satisfiable with the prior demands (Empty) is a goal boundary slot
C22_PathSound ==
    [][Len(paths') = Len(paths) + 1 =>
          SoundPath(paths'[Len(paths')].player, paths'[Len(paths')].path, cand,
                    claimed_edges, internal_demands)]_vars

\* a path accepted for the second player of an ordering, after the first
\* player's claims
C22_Witness ==
    /\ Len(paths) = 2
    /\ claimed_edges # {}
    /\ Len(paths[2].path) > 1

\* C23: with nothing claimed and nothing demanded, the search of
\* find_potential_path_for_team returns a path for a player whenever the
\* board has a walk from one of the player's start slots to one of the goal
\* slots, forced through Placed hexes and free through Empty ones
C23_SearchComplete ==
    \A p \in Players(cand) :
        HasPotentialPath(p, cand) =>
            FindPotentialPathForTeam(p, cand, {}, <<>>) # NoPath

\* the connection a walk uses inside the hex h, entered from the hex before
\* and left towards the hex after
ConnectionThrough(before, h, after) ==
    NormalizeConnection(GetDirectionTowards(h, before), GetDirectionTowards(h, after))

\* the connections of path inside the Empty hexes between two of its edges
\* are demanded
TurnsDemanded(w, g, idemands) ==
    \A j \in 2..(Len(w) - 1) :
        TileAt(g, w[j]) = Empty =>
            ConnectionThrough(w[j - 1], w[j], w[j + 1]) \in DemandsAt(idemands, w[j])

\* the connection from a boundary slot of the side at the Empty hex h to the
\* port towards next is demanded
EndDemanded(side, h, next, g, idemands) ==
    TileAt(g, h) = Empty =>
        \E slot \in SlotSet(EdgesOnBoardEdge(side)) :
            /\ slot[1] = h
            /\ NormalizeConnection(slot[2], GetDirectionTowards(h, next))
                  \in DemandsAt(idemands, h)

\* C24: after claim_resources_for_path every connection an accepted path
\* uses inside an Empty hex is in internal_demands of that hex: the turns
\* between two edges, the connection from the start boundary slot to the
\* first exit, and the connection from the last entry to the goal boundary slot
C24_EveryConnectionDemanded ==
    \A i \in 1..Len(paths) :
        \E h0 \in Boundary(paths[i].path[1]) \cap SideHexes(GetPlayerSides(paths[i].player)[1]) :
            LET w == HexesAlong(paths[i].path, h0)
            IN  /\ TurnsDemanded(w, cand, internal_demands)
                /\ EndDemanded(GetPlayerSides(paths[i].player)[1], w[1], w[2],
                               cand, internal_demands)
                /\ EndDemanded(GetPlayerSides(paths[i].player)[2], w[Len(w)], w[Len(w) - 1],
                               cand, internal_demands)

LastEdge(entry) == entry.path[Len(entry.path)]

\* the search the validator is about to run for the player at ordering[idx]
PendingSearch == SearchEnd(ordering[idx], cand, claimed_edges, internal_demands)

\* C25 as the code has it: the guard of one search is on inter-hex edges.
\* Every queued path ends in an edge marked in visited_nodes, no two queued
\* paths end in the same edge, and a returned path uses no edge twice, with
\* or without claims of other players; a path may pass a hex more than once
C25_NoEdgeTwice ==
    /\ (verdict = "checking" /\ idx <= Len(ordering)) =>
           LET end == PendingSearch
           IN  /\ \A j \in 1..Len(end.queue) : LastEdge(end.queue[j]) \in end.visited
               /\ \A j \in 1..Len(end.queue) : \A l \in 1..Len(end.queue) :
                      j < l => LastEdge(end.queue[j]) # LastEdge(end.queue[l])
    /\ \A i \in 1..Len(paths) :
           \A j \in 1..Len(paths[i].path) : \A l \in 1..Len(paths[i].path) :
               j < l => Boundary(paths[i].path[j]) # Boundary(paths[i].path[l])

\* a returned path that enters the hexes (5,3) and (6,4) twice, found after
\* another player has claimed edges
C25_Witness ==
    /\ Len(paths) = 2
    /\ claimed_edges # {}
    /\ \E i \in 1..2 :
           \E h0 \in Boundary(paths[i].path[1]) \cap SideHexes(GetPlayerSides(paths[i].player)[1]) :
               LET w == HexesAlong(paths[i].path, h0)
               IN  \E j \in 1..Len(w) : \E l \in 1..Len(w) : j < l /\ w[j] = w[l]

\* C25: a path find_potential_path_for_team returns passes through each hex
\* at most once, whatever other players have claimed
C25_NoHexTwice ==
    \A i \in 1..Len(paths) :
        \E h0 \in Boundary(paths[i].path[1]) \cap SideHexes(GetPlayerSides(paths[i].player)[1]) :
            LET w == HexesAlong(paths[i].path, h0)
            IN  \A j \in 1..Len(w) : \A l \in 1..Len(w) : j < l => w[j] # w[l]

----------------------------------------------------------------------------
(* apply_action on a crowded board: SpecContention                         *)

\* a three-player board of 26 tiles, set up with with_tile_placed
ContentionScript ==
    << <<TwoSharps, <<0, 0>>, 5>>, <<TwoSharps, <<0, 1>>, 3>>, <<OneSharp, <<0, 2>>, 2>>,
       <<OneSharp, <<1, 0>>, 3>>, <<NoSharps, <<1, 1>>, 0>>, <<NoSharps, <<1, 2>>, 0>>,
       <<NoSharps, <<1, 3>>, 0>>, <<OneSharp, <<2, 0>>, 4>>, <<OneSharp, <<2, 1>>, 0>>,
       <<OneSharp, <<2, 2>>, 2>>, <<ThreeSharps, <<2, 3>>, 0>>, <<ThreeSharps, <<2, 4>>, 3>>,
       <<ThreeSharps, <<2, 5>>, 4>>, <<TwoSharps, <<3, 1>>, 5>>, <<ThreeSharps, <<3, 2>>, 1>>,
       <<NoSharps, <<3, 3>>, 5>>, <<NoSharps, <<3, 5>>, 0>>, <<OneSharp, <<3, 6>>, 4>>,
       <<TwoSharps, <<4, 1>>, 4>>, <<OneSharp, <<4, 2>>, 4>>, <<OneSharp, <<4, 4>>, 2>>,
       <<ThreeSharps, <<4, 6>>, 5>>, <<TwoSharps, <<5, 4>>, 3>>, <<ThreeSharps, <<5, 5>>, 2>>,
       <<ThreeSharps, <<6, 3>>, 4>>, <<TwoSharps, <<6, 6>>, 2>> >>

ContentionBoard == PlaceAll(NewGame(3), ContentionScript)

ContentionGames == { SetCurrentPlayerForTesting(ContentionBoard, p) : p \in 0..2 }

\* the placements tried on it
ContentionMoves ==
    { <<OneSharp, <<0, 3>>, 1>>, <<NoSharps, <<0, 3>>, 0>>, <<OneSharp, <<5, 3>>, 0>> }

InitContention ==
    /\ game \in ContentionGames
    /\ result = "None"
    /\ calls = 0
    /\ cand = NewGame(2) /\ ordering = <<>> /\ idx = 0 /\ attempt = 0
    /\ claimed_edges = {} /\ internal_demands = <<>> /\ paths = <<>>
    /\ first_failing = None /\ verdict = "idle"
    /\ demands = {} /\ sat_result = "none"
    /\ query = NoQuery /\ answer = <<>>

PlaceOnContention ==
    \E p \in Players(game), m \in ContentionMoves :
        Call(PlaceTileAction(p, m[1], m[2], m[3]))

NextContention == CallDrawTile \/ CallRevealTile \/ PlaceOnContention

SpecContention == InitContention /\ [][NextContention]_vars

\* every potential path of player on g uses connection c through hex h
MustUse(player, g, h, c) ==
    /\ HasPotentialPath(player, g)
    /\ ~HasPotentialPathAvoiding(player, g, <<h, c>>)

\* two players each need a connection through the same Empty hex, and no
\* tile configuration provides both
SharedHexContention(g) ==
    \E h \in BoardCells(g) :
        /\ TileAt(g, h) = Empty
        /\ \E P \in Players(g) : \E c1 \in NormalizedPairs :
              /\ MustUse(P, g, h, c1)
              /\ \E Q \in Players(g) \ {P} : \E c2 \in NormalizedPairs :
                    /\ ~SomeConfigProvides({c1, c2})
                    /\ MustUse(Q, g, h, c2)

\* C6: a placement whose board (no Victory) has two players contending for one
\* Empty hex with connections no single tile provides is never accepted
C6_SharedHexContentionRejected ==
    (PlacementAccepted /\ game.outcome = NoOutcome) => ~SharedHexContention(game)

----------------------------------------------------------------------------
(* The regression opening of tests/illegal_moves.rs: SpecOpening           *)

\* test_user_b3_placement_is_legal, `moves`: (player, tile, pos, rotation)
OpeningMoves ==
    << <<0, ThreeSharps, <<0, 0>>, 0>>, <<1, TwoSharps, <<0, 1>>, 0>>,
       <<0, ThreeSharps, <<0, 2>>, 0>>, <<1, ThreeSharps, <<0, 3>>, 5>>,
       <<0, OneSharp, <<2, 4>>, 0>>, <<1, OneSharp, <<2, 3>>, 0>>,
       <<0, NoSharps, <<1, 3>>, 0>>, <<1, TwoSharps, <<2, 2>>, 0>> >>

\* test_user_b3_placement_is_legal, the placement tried for `r in 0..6`
FinalMove(r) == <<0, NoSharps, <<1, 2>>, r>>

\* the draws a run of the opening may contain
MaxDraws == 1

KindCount(g, kind) ==
    Cardinality({ i \in DOMAIN g.action_history : g.action_history[i].kind = kind })

\* the placements accepted so far
PlacedCount(g) == KindCount(g, "PlaceTile")

NextTile(g) ==
    IF PlacedCount(g) < Len(OpeningMoves) THEN OpeningMoves[PlacedCount(g) + 1][2] ELSE NoSharps

NextMover(g) ==
    IF PlacedCount(g) < Len(OpeningMoves) THEN OpeningMoves[PlacedCount(g) + 1][1] ELSE 0

InitOpening ==
    /\ game = NewGame(2)
    /\ result = "None"
    /\ calls = 0
    /\ cand = NewGame(2) /\ ordering = <<>> /\ idx = 0 /\ attempt = 0
    /\ claimed_edges = {} /\ internal_demands = <<>> /\ paths = <<>>
    /\ first_failing = None /\ verdict = "idle"
    /\ demands = {} /\ sat_result = "none"
    /\ query = NoQuery /\ answer = <<>>

\* `game.set_current_player_for_testing(player); game.apply_action(action)`
PlaceAs(m) ==
    Returned(ApplyAction(SetCurrentPlayerForTesting(game, m[1]),
                         PlaceTileAction(m[1], m[2], m[3], m[4])))

\* the next placement of the opening
OpeningPlace ==
    /\ PlacedCount(game) < Len(OpeningMoves)
    /\ PlaceAs(OpeningMoves[PlacedCount(game) + 1])

\* after the opening, NoSharps at (1,2) in one of the six rotations
OpeningFinal ==
    /\ PlacedCount(game) = Len(OpeningMoves)
    /\ \E r \in Rotations : PlaceAs(FinalMove(r))

\* the player about to place, holding no tile, draws the tile first
OpeningDraw ==
    /\ PlacedCount(game) <= Len(OpeningMoves)
    /\ game.tiles_in_hand[NextMover(game)] = None
    /\ KindCount(game, "DrawTile") < MaxDraws
    /\ Returned(ApplyAction(game, DrawTileAction(NextMover(game), NextTile(game))))

NextOpening == OpeningPlace \/ OpeningFinal \/ OpeningDraw

SpecOpening == InitOpening /\ [][NextOpening]_vars

\* the hex holds tile t in rotation r
IsTile(hex, t, r) == hex.kind = "Placed" /\ hex.type_ = t /\ hex.rotation = r

\* C7: every call of the regression opening returns Ok: the eight placements
\* in order, then NoSharps at (1,2) in each rotation 0..5; each accepted
\* placement is on the board as scripted
C7_OpeningAccepted ==
    /\ result \in {"None", "Ok"}
    /\ \A k \in 1..Len(OpeningMoves) :
          k <= PlacedCount(game) =>
              IsTile(TileAt(game, OpeningMoves[k][3]), OpeningMoves[k][2], OpeningMoves[k][4])
    /\ PlacedCount(game) = Len(OpeningMoves) + 1 =>
          \E r \in Rotations : IsTile(TileAt(game, <<1, 2>>), NoSharps, r)

\* the opening and the final placement in rotation 5, all accepted
C7_Witness ==
    /\ PlacedCount(game) = Len(OpeningMoves) + 1
    /\ result = "Ok"
    /\ IsTile(TileAt(game, <<1, 2>>), NoSharps, 5)

----------------------------------------------------------------------------
(* SpecBoard: tiles put on a board with with_tile_placed and apply_action, *)
(* and the flows recomputed                                                *)

MaxPlacements == 2

\* the boards a run starts from
BoardGames == {NewGame(3), StraightGame, ExhaustedGame}

\* the tiles put down: the centre hex, an end of the middle row, and the
\* corner board[6][0] of the square, which with_tile_placed does not refuse
BoardMoves ==
    { <<t, pos, 0>> : t \in {OneSharp, TwoSharps}, pos \in {CenterPos, <<3, 6>>, <<6, 0>>} }

InitBoard ==
    /\ game \in BoardGames
    /\ result = "None"
    /\ calls = 0
    /\ cand = NewGame(2) /\ ordering = <<>> /\ idx = 0 /\ attempt = 0
    /\ claimed_edges = {} /\ internal_demands = <<>> /\ paths = <<>>
    /\ first_failing = None /\ verdict = "idle"
    /\ demands = {} /\ sat_result = "none"
    /\ query = NoQuery /\ answer = <<>>

\* game = game.with_tile_placed(tile, pos, rotation)
BoardPlace ==
    /\ calls < MaxPlacements
    /\ \E m \in BoardMoves : game' = WithTilePlaced(game, m[1], m[2], m[3])
    /\ result' = "with_tile_placed"
    /\ calls' = calls + 1
    /\ UNCHANGED <<validatorVars, oracleVars, geometryVars>>

\* game.recompute_flows()
BoardRecompute ==
    /\ game' = RecomputeFlows(game)
    /\ result' = "recompute_flows"
    /\ UNCHANGED <<calls, validatorVars, oracleVars, geometryVars>>

\* game.apply_action(PlaceTile) by the player to move, on a board whose
\* corner holds no tile
BoardApply ==
    /\ calls < MaxPlacements
    /\ game.board[6][0] = NotOnBoard
    /\ \E m \in BoardMoves :
          LET r == ApplyAction(game, PlaceTileAction(game.current_player, m[1], m[2], m[3]))
          IN  game' = r.game /\ result' = r.result
    /\ calls' = calls + 1
    /\ UNCHANGED <<validatorVars, oracleVars, geometryVars>>

NextBoard == BoardPlace \/ BoardRecompute \/ BoardApply

SpecBoard == InitBoard /\ [][NextBoard]_vars

----------------------------------------------------------------------------
(* Properties of the validator's searches, checked under SpecBoard         *)

\* the playable hexes of the board of Game::new
PlayableHexes == { pos \in Grid : NewBoard[pos[1]][pos[2]] = Empty }

\* the edges between two playable hexes, each counted once
InterHexEdges ==
    { <<p, q>> \in PlayableHexes \X PlayableHexes :
         PosLess(p, q) /\ \E d \in Directions : PosAdd(p, TileVecOf(d)) = q }

\* a search has left its loop, after enqueueing no more edges than there are
\* between the hexes of the board
SearchBounded(end) ==
    /\ end.found # NoPath \/ end.queue = <<>>
    /\ Cardinality(end.visited) <= Cardinality(InterHexEdges)

\* the searches of one ordering, up to the first failing player: all of them
\* bounded (ok), and the player whose search found no path
RECURSIVE OrderingBounded(_, _, _, _)
OrderingBounded(st, ordered_players, g, i) ==
    IF i > Len(ordered_players) THEN [ok |-> TRUE, failing |-> None]
    ELSE LET end == SearchEnd(ordered_players[i], g, st.claimed_edges, st.internal_demands)
         IN  IF ~SearchBounded(end) THEN [ok |-> FALSE, failing |-> None]
             ELSE IF PathFound(end) = NoPath
                  THEN [ok |-> TRUE, failing |-> ordered_players[i]]
                  ELSE OrderingBounded(OrderingClaim(st, ordered_players[i], g, PathFound(end)),
                                       ordered_players, g, i + 1)

\* C13: on every board of Empty, Placed and NotOnBoard cells is_move_legal
\* returns: each search of the first ordering, and of the retry when there is
\* one, leaves its loop having enqueued at most as many edges as lie between
\* the hexes of the board
C13_SearchesBounded ==
    game.outcome = NoOutcome =>
        LET first == OrderingBounded(OrderingStart, DefaultOrdering(game), game, 1)
        IN  /\ first.ok
            /\ first.failing # None =>
                  OrderingBounded(OrderingStart,
                                  ReorderedPlayers(DefaultOrdering(game), first.failing),
                                  game, 1).ok

----------------------------------------------------------------------------
(* Properties of the flows and the outcome, checked under SpecBoard        *)

\* every placed tile's flow cache set to [None; 6]
ClearedCaches(g) ==
    [g EXCEPT !.board =
        [row \in 0..6 |-> [col \in 0..6 |->
            IF g.board[row][col].kind = "Placed"
            THEN [g.board[row][col] EXCEPT !.flow_cache = [d \in Directions |-> None]]
            ELSE g.board[row][col]]]]

\* C14: after recompute_flows every flow cache is what clearing all caches and
\* floodfilling from the boundary slots of every owned side, in side order,
\* leaves: no direction keeps a mark the board does not justify
C14_FlowCachePure ==
    game.board = FloodSides(ClearedCaches(game), 0).board

\* C15: a second recompute_flows, with no mutation since the first, leaves
\* every flow cache entry and the outcome as the first call left them
C15_RecomputeIdempotent ==
    [][result' = "recompute_flows" => game' = game]_vars

\* recompute_flows has been called again on a board with marked flows and a winner
C15_Witness ==
    /\ result = "recompute_flows"
    /\ game.outcome # NoOutcome
    /\ \E pos \in Grid : /\ game.board[pos[1]][pos[2]].kind = "Placed"
                         /\ \E d \in Directions : game.board[pos[1]][pos[2]].flow_cache[d] # None

\* the flow of the owner of side s is marked on a boundary slot of the
\* opposite side
ReachedGoal(g, s) ==
    /\ g.sides[s] # None
    /\ \E i \in 1..7 :
          LET slot == EdgesOnBoardEdge((s + 3) % 6)[i]
              tile == g.board[slot[1][1]][slot[1][2]]
          IN  tile.kind = "Placed" /\ tile.flow_cache[slot[2]] = g.sides[s]

\* the players who have reached their goal side, each with the owner of that
\* goal side if it has one
VictorySet(g) ==
    { p \in 0..(g.num_players - 1) :
         \E s \in 0..5 : ReachedGoal(g, s) /\ p \in {g.sides[s], g.sides[(s + 3) % 6]} }

\* w lists the members of S in increasing order, each once
SortedListOf(w, S) ==
    /\ { w[i] : i \in 1..Len(w) } = S
    /\ \A i \in 1..Len(w) : \A j \in 1..Len(w) : i < j => w[i] < w[j]

C17_OutcomeSticky ==
    [][game.outcome # NoOutcome => game'.outcome = game.outcome]_vars

\* a tile put over the winner's path after the victory: the caches no longer
\* show a winner, the outcome is still the victory
C17_Witness ==
    /\ game.outcome = Victory(<<1>>)
    /\ VictorySet(game) = {}

----------------------------------------------------------------------------
(* SpecGeometry: the tile and board-edge functions called on each of their *)
(* arguments                                                               *)

InitGeometry ==
    /\ query = NoQuery /\ answer = <<>>
    /\ game = NewGame(2) /\ result = "None" /\ calls = 0
    /\ cand = NewGame(2) /\ ordering = <<>> /\ idx = 0 /\ attempt = 0
    /\ claimed_edges = {} /\ internal_demands = <<>> /\ paths = <<>>
    /\ first_failing = None /\ verdict = "idle"
    /\ demands = {} /\ sat_result = "none"

\* PlacedTile::new(t, r).exit_from_entrance(d)
AskExit ==
    \E t \in TileTypes, r \in Rotations, d \in Directions :
        /\ query' = [kind |-> "exit_from_entrance", tile |-> NewPlacedTile(t, r),
                     entrance |-> d]
        /\ answer' = PlacedExit(NewPlacedTile(t, r), d)
        /\ UNCHANGED <<gameVars, validatorVars, oracleVars>>

\* PlacedTile::new(t, r).all_flows()
AskAllFlows ==
    \E t \in TileTypes, r \in Rotations :
        /\ query' = [kind |-> "all_flows", tile |-> NewPlacedTile(t, r)]
        /\ answer' = PlacedAllFlows(NewPlacedTile(t, r))
        /\ UNCHANGED <<gameVars, validatorVars, oracleVars>>

\* game.edges_on_board_edge(Rotation(side))
AskEdges ==
    \E side \in 0..5 :
        /\ query' = [kind |-> "edges_on_board_edge", side |-> side]
        /\ answer' = EdgesOnBoardEdge(side)
        /\ UNCHANGED <<gameVars, validatorVars, oracleVars>>

NextGeometry == AskExit \/ AskAllFlows \/ AskEdges

SpecGeometry == InitGeometry /\ [][NextGeometry]_vars

\* C18: for every tile type and rotation exit_from_entrance is a permutation
\* of the six directions, its own inverse and without a fixed point, equal to
\* the base permutation conjugated by the rotation; all_flows returns three
\* pairs in which every direction appears once and which exit_from_entrance
\* maps onto each other
C18_TileAlgebra ==
    /\ query.kind = "exit_from_entrance" =>
          /\ answer \in Directions
          /\ answer # query.entrance
          /\ PlacedExit(query.tile, answer) = query.entrance
          /\ { PlacedExit(query.tile, d) : d \in Directions } = Directions
          /\ \A d \in Directions :
                query.entrance = DirRotate(d, query.tile.rotation) =>
                   answer = DirRotate(TileTypeExit(query.tile.type_, d), query.tile.rotation)
    /\ query.kind = "all_flows" =>
          /\ Len(answer) = 3
          /\ \A d \in Directions :
                Cardinality({ i \in 1..3 : d \in {answer[i][1], answer[i][2]} }) = 1
          /\ \A i \in 1..3 :
                /\ answer[i][1] # answer[i][2]
                /\ PlacedExit(query.tile, answer[i][1]) = answer[i][2]
                /\ PlacedExit(query.tile, answer[i][2]) = answer[i][1]

\* the exit of a rotated OneSharp asked for from entrance 0
C18_Witness ==
    /\ query.kind = "exit_from_entrance"
    /\ query.tile.type_ = OneSharp /\ query.tile.rotation = 2 /\ query.entrance = 0
    /\ answer = 4

\* the edges of the playable hexes towards a NotOnBoard or out-of-range cell
BorderEdges ==
    { <<pos, d>> \in PlayableHexes \X Directions :
         PosAdd(pos, TileVecOf(d)) \notin PlayableHexes }

\* the slots edges_on_board_edge returns for a side, as a set
SideSlots(side) == { EdgesOnBoardEdge(side)[i] : i \in 1..7 }

\* a slot turned by 180 degrees about the centre (3,3)
HalfTurn(slot) ==
    << <<2 * CenterPos[1] - slot[1][1], 2 * CenterPos[2] - slot[1][2]>>,
       (slot[2] + 3) % 6 >>

\* C19: edges_on_board_edge returns 7 slots for a side, each a border edge of
\* a playable hex; the slots of different sides are disjoint, the six sides
\* together are all 42 border edges, and the slots of side (s+3) mod 6 are
\* those of side s turned by 180 degrees about (3,3)
C19_BoundarySlots ==
    query.kind = "edges_on_board_edge" =>
        /\ Len(answer) = 7
        /\ Cardinality({ answer[i] : i \in 1..7 }) = 7
        /\ \A i \in 1..7 : answer[i] \in BorderEdges
        /\ \A s \in 0..5 : s # query.side =>
              { answer[i] : i \in 1..7 } \cap SideSlots(s) = {}
        /\ UNION { SideSlots(s) : s \in 0..5 } = BorderEdges
        /\ Cardinality(PlayableHexes) = 37
        /\ Cardinality(BorderEdges) = 42
        /\ SideSlots((query.side + 3) % 6) = { HalfTurn(answer[i]) : i \in 1..7 }

\* the slots of side 4 have been asked for
C19_Witness ==
    /\ query.kind = "edges_on_board_edge"
    /\ query.side = 4
    /\ Len(answer) = 7

----------------------------------------------------------------------------
(* The board and the action log under apply_action, checked under Spec     *)

\* what a cell holds, its flow cache left aside
TileId(hex) ==
    IF hex.kind = "Placed" THEN <<"Placed", hex.type_, hex.rotation>> ELSE <<hex.kind>>

PlacedCells(g) == { pos \in Grid : g.board[pos[1]][pos[2]].kind = "Placed" }

ChangedCells(g, h) ==
    { pos \in Grid : TileId(h.board[pos[1]][pos[2]]) # TileId(g.board[pos[1]][pos[2]]) }

\* positions a PlaceTile may name: cells of the grid and positions outside it
TargetPositions == ((-1)..7) \X ((-1)..7)

\* C27: apply_action rejects a PlaceTile unless its target cell is Empty (a
\* Placed cell, a NotOnBoard cell and a position outside the 7x7 grid are
\* rejected); a Placed cell keeps its type and rotation, a NotOnBoard cell
\* never changes, exactly one cell changes per accepted PlaceTile and none
\* otherwise; the number of Placed cells equals the number of PlaceTile
\* actions in action_history from Game::new on
C27_BoardMonotone ==
    [][/\ \A pos \in TargetPositions : \A t \in {OneSharp, TwoSharps} :
              (~InGrid(pos) \/ TileAt(game, pos) # Empty) =>
                  ApplyAction(game, PlaceTileAction(game.current_player, t, pos, 0)).result
                      \in ErrorMessages
       /\ \A pos \in Grid :
              TileAt(game, pos) # Empty => TileId(TileAt(game', pos)) = TileId(TileAt(game, pos))
       /\ IF Accepted("PlaceTile")
          THEN /\ ChangedCells(game, game') = {LastAction(game').pos}
               /\ TileAt(game, LastAction(game').pos) = Empty
               /\ TileId(TileAt(game', LastAction(game').pos))
                     = <<"Placed", LastAction(game').tile, LastAction(game').rotation>>
          ELSE ChangedCells(game, game') = {}
       /\ \A n \in {2, 3} : Cardinality(PlacedCells(NewGame(n))) = PlacedCount(NewGame(n))
       /\ Cardinality(PlacedCells(game)) = PlacedCount(game) =>
              Cardinality(PlacedCells(game')) = PlacedCount(game')]_vars

\* a PlaceTile rejected for its target after one accepted on a new game: one
\* Placed cell, one PlaceTile in the log
C27_Witness ==
    /\ result = ErrNotEmpty
    /\ calls = 2
    /\ PlacedCount(game) = 1
    /\ Cardinality(PlacedCells(game)) = 1

\* C28: once the outcome is a Victory every PlaceTile is rejected and neither
\* the board nor current_player changes again; the placement that wins is
\* committed to the board and appended to action_history, and does not
\* advance the turn
C28_GameOverFreezes ==
    [][/\ game.outcome # NoOutcome =>
              /\ \A p \in Players(game) : \A m \in PlaceMoves :
                     ApplyAction(game, PlaceTileAction(p, m[1], m[2], m[3])).result = ErrGameOver
              /\ ~Accepted("PlaceTile")
              /\ game'.board = game.board
              /\ game'.current_player = game.current_player
              /\ game'.outcome = game.outcome
       /\ (game.outcome = NoOutcome /\ game'.outcome # NoOutcome) =>
              /\ Accepted("PlaceTile")
              /\ game'.action_history = Append(game.action_history, LastAction(game'))
              /\ TileId(TileAt(game', LastAction(game').pos))
                    = <<"Placed", LastAction(game').tile, LastAction(game').rotation>>
              /\ game'.current_player = game.current_player]_vars

\* player 1 wins by closing the row of StraightGame and is still the current
\* player when the next placement is rejected
C28_Witness ==
    /\ game.outcome # NoOutcome
    /\ result = ErrGameOver
    /\ game.current_player = 1
    /\ LastAction(game) = PlaceTileAction(1, TwoSharps, <<3, 3>>, 0)

----------------------------------------------------------------------------
(* Game::from_actions on the log of a game played from Game::new:           *)
(* SpecReplay                                                               *)

\* a replay that goes on after a rejected action, as `let _ = game.apply_action(action)`
RECURSIVE ReplayActionsIgnoringErr(_, _, _)
ReplayActionsIgnoringErr(g, history, i) ==
    IF LoopEnd(g, i, Len(history)) THEN Ok(g)
    ELSE ReplayActionsIgnoringErr(ApplyAction(g, history[i]).game, history, i + 1)

\* from_actions, `.skip(1).try_for_each(|action| game.apply_action(action))`:
\* Ok(game) after the last action, the first Err without a game
RECURSIVE ReplayActions(_, _, _)
ReplayActions(g, history, i) ==
    IF LoopEnd(g, i, Len(history)) THEN Ok(g)
    ELSE LET r == ApplyAction(g, history[i])
         IN  IF Evaluated(r) /\ r.result # "Ok" THEN [result |-> r.result]
             ELSE ReplayActions(r.game, history, i + 1)

\* Game::from_actions
FromActions(history) ==
    IF history[1].kind = "InitializeGame"
    THEN ReplayActions(NewGame(history[1].num_players), history, 2)
    ELSE [result |-> "panic"]

\* what a replayed log holds after the game's own action_history
ReplayTails ==
    { <<>>, <<InitializeGameAction(2), DrawTileAction(0, OneSharp)>> }

InitReplay ==
    /\ game = NewGame(2)
    /\ result = "None"
    /\ calls = 0
    /\ cand = NewGame(2) /\ ordering = <<>> /\ idx = 0 /\ attempt = 0
    /\ claimed_edges = {} /\ internal_demands = <<>> /\ paths = <<>>
    /\ first_failing = None /\ verdict = "idle"
    /\ demands = {} /\ sat_result = "none"
    /\ query = NoQuery /\ answer = <<>>

\* one call of Game::from_actions on the game's log, or on the log with more
\* actions after it
CallFromActions ==
    /\ query = NoQuery
    /\ \E tail \in ReplayTails :
          /\ query' = [kind |-> "from_actions", log |-> game.action_history \o tail]
          /\ answer' = FromActions(game.action_history \o tail)
    /\ UNCHANGED <<gameVars, validatorVars, oracleVars>>

\* the driver plays, then replays the log
NextReplay ==
    \/ query = NoQuery /\ CallInitializeGame
    \/ query = NoQuery /\ CallDrawTile
    \/ query = NoQuery /\ CallRevealTile
    \/ query = NoQuery /\ CallPlaceTile
    \/ CallFromActions

SpecReplay == InitReplay /\ [][NextReplay]_vars

\* what apply_action on the live game says of the actions after its own log
AfterTail(g, tail) ==
    IF tail = <<>> THEN Ok(g)
    ELSE LET first == ApplyAction(g, tail[1])
         IN  IF Evaluated(first) /\ first.result # "Ok" THEN [result |-> first.result]
             ELSE IF Len(tail) = 1 THEN Ok(first.game)
             ELSE LET second == ApplyAction(first.game, tail[2])
                  IN  IF second.result # "Ok" THEN [result |-> second.result]
                      ELSE Ok(second.game)

\* C29: the action_history of a game played from Game::new starts with
\* InitializeGame and grows by exactly the accepted actions, in order;
\* from_actions on it returns Ok with the same game (board with flow caches,
\* hands, remaining tiles, current_player, outcome); on a longer log it
\* returns the Err of the first rejected action, and applies nothing after it
C29_ActionLogRoundTrip ==
    [][/\ game.action_history[1].kind = "InitializeGame"
       /\ calls' # calls =>
              game'.action_history =
                 IF result' = "Ok"
                 THEN Append(game.action_history, game'.action_history[Len(game'.action_history)])
                 ELSE game.action_history
       /\ query' # query =>
              /\ \E tail \in ReplayTails :
                    /\ query'.log = game.action_history \o tail
                    /\ answer' = AfterTail(game, tail)
              /\ query'.log = game.action_history => answer' = Ok(game)]_vars

\* the log of a game with an accepted draw and an accepted placement,
\* replayed to the same game
C29_Witness ==
    /\ query # NoQuery
    /\ query.log = game.action_history
    /\ Len(game.action_history) = 3
    /\ PlacedCount(game) = 1
    /\ KindCount(game, "DrawTile") = 1
    /\ answer = Ok(game)

----------------------------------------------------------------------------
(* floodfill_path, one turn of its loop at a time: SpecFlood               *)

\* a three-player game whose 37 cells all hold a tile, the cell at pos of
\* the type and rotation given, or Empty where type[pos] is None; the chain
\* does not read the flow caches
FilledGame(type, rotation) ==
    [NewGame(3) EXCEPT !.board =
        [row \in 0..6 |-> [col \in 0..6 |->
            IF NewBoard[row][col] = NotOnBoard THEN NotOnBoard
            ELSE IF type[<<row, col>>] = None THEN Empty
            ELSE NewPlacedTile(type[<<row, col>>], rotation[<<row, col>>])]]]

\* the boards flooded: every cell the same tile, two boards of mixed tiles,
\* and a mixed board with Empty cells
FloodBoards ==
    { FilledGame([pos \in Grid |-> t], [pos \in Grid |-> r]) : t \in TileTypes, r \in {0, 1} }
    \cup { FilledGame([pos \in Grid |-> (pos[1] + 2 * pos[2]) % 4],
                      [pos \in Grid |-> (pos[1] * pos[2]) % 6]),
           FilledGame([pos \in Grid |-> (3 * pos[1] + pos[2]) % 4],
                      [pos \in Grid |-> (pos[1] + pos[2]) % 6]),
           FilledGame([pos \in Grid |-> IF (pos[1] + pos[2]) % 4 = 0 THEN None
                                        ELSE (pos[1] * pos[2]) % 4],
                      [pos \in Grid |-> (2 * pos[1] + pos[2]) % 6]) }

InitFlood ==
    /\ game \in FloodBoards
    /\ result = "None"
    /\ calls = 0
    /\ cand = game /\ ordering = <<>> /\ idx = 0 /\ attempt = 0
    /\ claimed_edges = {} /\ internal_demands = <<>> /\ paths = <<>>
    /\ first_failing = None /\ verdict = "idle"
    /\ demands = {} /\ sat_result = "none"
    /\ query = NoQuery /\ answer = <<>>

\* recompute_flows, `self.floodfill_path(player, pos, dir)` for one boundary
\* slot of a side that has an owner; answer lists the (hex, port) entered
FloodBegin ==
    /\ query = NoQuery
    /\ \E side \in 0..5 : \E i \in 1..7 :
          /\ game.sides[side] # None
          /\ query' = [kind |-> "floodfill", player |-> game.sides[side],
                       slot |-> EdgesOnBoardEdge(side)[i],
                       pos |-> EdgesOnBoardEdge(side)[i][1],
                       dir |-> EdgesOnBoardEdge(side)[i][2],
                       stopped |-> "no"]
    /\ answer' = <<>>
    /\ UNCHANGED <<gameVars, validatorVars, oracleVars>>

\* floodfill_path, one turn of `loop`
FloodTurn ==
    /\ query # NoQuery
    /\ query.stopped = "no"
    /\ IF ~InGrid(query.pos) \/ TileAt(game, query.pos).kind # "Placed"
       THEN /\ query' = [query EXCEPT !.stopped = "hex"]
            /\ UNCHANGED <<game, answer>>
       ELSE LET exit_dir == PlacedExit(TileAt(game, query.pos), query.dir)
                marked == [game EXCEPT !.board =
                             SetFlowCache(SetFlowCache(game.board, query.pos, query.dir,
                                                       query.player),
                                          query.pos, exit_dir, query.player)]
                next_pos == AdjacentTile(marked, query.pos, exit_dir)
            IN  /\ game' = marked
                /\ answer' = Append(answer, <<query.pos, query.dir>>)
                /\ query' = IF next_pos = NoPos
                            THEN [query EXCEPT !.stopped = "edge"]
                            ELSE [query EXCEPT !.pos = next_pos,
                                               !.dir = DirReversed(exit_dir)]
    /\ UNCHANGED <<result, calls, validatorVars, oracleVars>>

NextFlood == FloodBegin \/ FloodTurn

\* the loop of floodfill_path keeps running until it breaks
SpecFlood == InitFlood /\ [][NextFlood]_vars /\ WF_vars(FloodTurn)

\* the chain follows the tiles: each (hex, port) entered after the first is
\* the far side of the exit of the one before
ChainFollowsTiles ==
    /\ answer # <<>> => answer[1] = query.slot
    /\ \A k \in 1..Len(answer) :
          /\ TileAt(cand, answer[k][1]).kind = "Placed"
          /\ k < Len(answer) =>
                LET exit_dir == PlacedExit(TileAt(cand, answer[k][1]), answer[k][2])
                IN  answer[k + 1] = << PosAdd(answer[k][1], TileVecOf(exit_dir)),
                                       DirReversed(exit_dir) >>

\* where the chain stopped: in front of the first hex that holds no tile, or
\* at an exit that faces the board edge
StoppedAtEnd ==
    \/ /\ query.stopped = "hex"
       /\ TileAt(cand, query.pos).kind # "Placed"
       /\ answer = <<>> => query.pos = query.slot[1]
    \/ /\ query.stopped = "edge"
       /\ answer # <<>>
       /\ LET last == answer[Len(answer)]
          IN  TileAt(cand, PosAdd(last[1], TileVecOf(PlacedExit(TileAt(cand, last[1]), last[2]))))
                 = NotOnBoard

FloodChainSafe ==
    query # NoQuery =>
        /\ \A j \in 1..Len(answer) : \A l \in 1..Len(answer) : j < l => answer[j] # answer[l]
        /\ Len(answer) <= 3 * 37
        /\ ChainFollowsTiles
        /\ query.stopped # "no" =>
              /\ StoppedAtEnd
              /\ game = FloodfillPath(cand, query.player, query.slot[1], query.slot[2])

\* C30: floodfill_path from a boundary slot terminates on every board, a
\* board of 37 Placed cells included: the chain never enters the same (hex,
\* port) twice, has at most 3 * 37 links, ends in front of the first hex
\* without a tile or at the board edge, and the loop does stop; every flood
\* of recompute_flows is such a chain
C30_FloodfillTerminates ==
    /\ []FloodChainSafe
    /\ (query # NoQuery) ~> (query # NoQuery /\ query.stopped # "no")

\* a chain over more than 7 tiles of a board without an Empty cell, stopped
\* at the board edge
C30_Witness ==
    /\ query # NoQuery
    /\ query.stopped = "edge"
    /\ Len(answer) > 7
    /\ \A pos \in Grid : TileAt(game, pos) # Empty

====
